---------------------------- MODULE Spec2Model ----------------------------
(***************************************************************************)
(* A model of the macro-risk engine of server/model/macro_risk_os_v2.py:   *)
(* RegimeModel (two-level HMM fit bookkeeping and get_probs_at),           *)
(* Optimizer.optimize, RiskOverlays.apply, the mu stages of                *)
(* ProductionEngine.step, EnsembleAlphaModels._compute_ensemble_weights    *)
(* and the walk-forward loop of BacktestHarness.run.                       *)
(*                                                                         *)
(* Numbers.  Python floats are modelled by exact fixed-point integers:     *)
(*   probabilities            in hundredths        (0.33 -> 33)            *)
(*   monthly returns          in units of 1/RetDen                         *)
(*   equity curves            as numerators n over RetDen^e                *)
(* so every comparison the code makes is made exactly.  Dates are the      *)
(* integer positions of the rows of the return matrix ret_df (0-based, as  *)
(* in ret_df.index[k]); observables of the regime model may start before   *)
(* position 0.                                                             *)
(*                                                                         *)
(* The module holds several specifications over one set of variables; a    *)
(* specification leaves the variables of the other parts parked at their   *)
(* initial values.                                                         *)
(***************************************************************************)
EXTENDS Integers, Sequences, FiniteSets, TLC

VARIABLES
    \* ---- RegimeModel
    regime_probs,       \* RegimeModel.regime_probs: NoFit or the fitted frame
    probs_out,          \* the dict last returned by get_probs_at
    fit_log,            \* what the last fit() logged: its asof_date, the levels fitted
    \* ---- BacktestHarness.run
    n_rows,             \* len(ret_df)
    training_window,    \* cfg['training_window_months']
    regime_refit_interval, \* cfg['regime_refit_interval']
    hpc,                \* position of run(): "new", "walk", "insufficient", "done"
    i,                  \* loop index of `for i, date in enumerate(dates)`
    last_regime_refit,
    equity_overlay, equity_total, equity_ibov,
    peak_overlay, peak_total, peak_ibov,
    prev_weights,
    records,            \* the local list `records`
    results,            \* self.results
    \* ---- EnsembleAlphaModels (one instrument)
    oos_len,            \* len(oos_history[inst][model]) per model
    ens_out,            \* the dict last returned by _compute_ensemble_weights
    \* ---- ProductionEngine.step, the mu stages
    raw_score_history,  \* ProductionEngine.raw_score_history
    mu_out,             \* what the last step computed from mu to mu_demeaned
    \* ---- ProductionEngine.step, from the optimiser to the recorded weights
    w_out,              \* what the last step computed from mu_adj to the weights
    \* ---- the harness run on a data set and on a prefix of it
    raw_front,          \* the raw monthly returns of `front`, before winsorize
    engine_w,           \* the weight the engine puts on `front`
    full_run,           \* the records of the run on all rows
    prefix_run,         \* the records of the run on the rows of a prefix
    \* ---- ProductionEngine.step, the caches (hyperparameters, features)
    cfg_window,         \* cfg['training_window_months'] of the engine
    step_count,         \* ProductionEngine.step_count
    hp_cache,           \* ProductionEngine.hp_cache
    alpha_hp_cache,     \* EnsembleAlphaModels.hp_cache
    fs,                 \* the _fs_* fields of EnsembleAlphaModels
    selected_features,  \* the keys of EnsembleAlphaModels.selected_features
    eng_out,            \* what the last step did to the caches
    fs_shocks,          \* the steps at which the dominant regime changed
    fs_fired,           \* the steps at which a re-selection was flagged
    \* ---- DualFeatureSelector.select in two processes on the same data
    np_random,          \* the state of numpy's global generator, per process
    sel_out,            \* the random draws of every select() so far, per process
    \* ---- EnsembleAlphaModels.purged_kfold_cv
    cv_out,             \* the folds the last call evaluated
    \* ---- EnsembleAlphaModels.fit_and_predict, the mix of one instrument
    pred_out,           \* the learners' predictions and the ensemble mu
    \* ---- feature_selection.py: the snapshot file, the alerts, the merge
    fs_history,         \* feature_selection_history.json: the list of snapshots
    sel_result,         \* feature_selection_results[inst] of the last select()
    alert_out,          \* what the last select() compared and the alerts it made
    chg_out,            \* the changes block of the last run_v2
    merge_out,          \* the feature sets of the last merge
    \* ---- CompositeEquilibriumRate.compute at one date
    eq_out              \* the model estimates, the weights and the composite

regimeVars  == <<regime_probs, probs_out, fit_log>>
harnessVars == <<n_rows, training_window, regime_refit_interval, hpc, i,
                 last_regime_refit, equity_overlay, equity_total, equity_ibov,
                 peak_overlay, peak_total, peak_ibov, prev_weights, records,
                 results>>
ensVars     == <<oos_len, ens_out>>
muVars      == <<raw_score_history, mu_out>>
weightVars  == <<w_out>>
prefixVars  == <<raw_front, engine_w, full_run, prefix_run>>
engineVars  == <<cfg_window, step_count, hp_cache, alpha_hp_cache, fs,
                 selected_features, eng_out, fs_shocks, fs_fired>>
selVars     == <<np_random, sel_out>>
cvVars      == <<cv_out>>
predVars    == <<pred_out>>
trackVars   == <<fs_history, sel_result, alert_out, chg_out>>
mergeVars   == <<merge_out>>
eqVars      == <<eq_out>>
lastVars    == <<predVars, trackVars, mergeVars, eqVars>>
midVars     == <<engineVars, selVars, cvVars>>
laterVars   == <<midVars, lastVars>>
notHarness  == <<ensVars, muVars, weightVars, prefixVars, laterVars>>
notRegime   == <<harnessVars, ensVars, muVars, weightVars, prefixVars, laterVars>>
notEns      == <<regimeVars, harnessVars, muVars, weightVars, prefixVars, laterVars>>
notMu       == <<regimeVars, harnessVars, ensVars, weightVars, prefixVars, laterVars>>
notWeights  == <<regimeVars, harnessVars, ensVars, muVars, prefixVars, laterVars>>
notPrefix   == <<regimeVars, harnessVars, ensVars, muVars, weightVars, laterVars>>
firstVars   == <<regimeVars, harnessVars, ensVars, muVars, weightVars, prefixVars>>
notEngine   == <<firstVars, selVars, cvVars, lastVars>>
notSel      == <<firstVars, engineVars, cvVars, lastVars>>
notCv       == <<firstVars, engineVars, selVars, lastVars>>
notPred     == <<firstVars, midVars, trackVars, mergeVars, eqVars>>
notTrack    == <<firstVars, midVars, predVars, mergeVars, eqVars>>
notMerge    == <<firstVars, midVars, predVars, trackVars, eqVars>>
notEq       == <<firstVars, midVars, predVars, trackVars, mergeVars>>
vars == <<firstVars, laterVars>>

-----------------------------------------------------------------------------
(* Generic helpers *)

Abs(x) == IF x < 0 THEN -x ELSE x
Max2(a, b) == IF a >= b THEN a ELSE b
Min2(a, b) == IF a <= b THEN a ELSE b

RECURSIVE Pow(_, _)
Pow(b, e) == IF e = 0 THEN 1 ELSE b * Pow(b, e - 1)

-----------------------------------------------------------------------------
(* RegimeModel *)

PScale == 10 * 10          \* probability 1.0 in hundredths

\* get_probs_at: the literal defaults
DefaultPGlobal == 33
DefaultPDomestic == 50
\* fit: the columns added when only one level was fitted
FitFillPGlobal == 33
FitFillPDomestic == 50
\* _fit_hmm: fewer rows than this is "Insufficient data"
MinHmmRows == 60

NoFit == [fitted |-> FALSE]

GlobalKeys   == {"P_carry", "P_riskoff", "P_stress"}
DomesticKeys == {"P_domestic_calm", "P_domestic_stress"}
ProbKeys     == GlobalKeys \cup DomesticKeys

Defaults ==
    [k \in ProbKeys |-> IF k \in GlobalKeys THEN DefaultPGlobal ELSE DefaultPDomestic]

\* Posterior rows an HMM level can emit (predict_proba rows sum to one).
GlobalRows ==
    { [P_carry |-> 70, P_riskoff |-> 20, P_stress |-> 10],
      [P_carry |-> 10, P_riskoff |-> 80, P_stress |-> 10],
      [P_carry |-> 10, P_riskoff |-> 20, P_stress |-> 70] }
DomesticRows ==
    { [P_domestic_calm |-> 80, P_domestic_stress |-> 20],
      [P_domestic_calm |-> 20, P_domestic_stress |-> 80] }
CalmGlobal   == [P_carry |-> 70, P_riskoff |-> 20, P_stress |-> 10]
CalmDomestic == [P_domestic_calm |-> 80, P_domestic_stress |-> 20]

\* First month with a complete row of observables, per level (data).
ObsFirst == [Global |-> -30, Domestic |-> -24]

\* A fitted level: rows first..last; every row before the last is `hist`,
\* the last row is `cur`.
NoDf == [ok |-> FALSE]
LevelDf(first, last, hist, cur) ==
    [ok |-> TRUE, first |-> first, last |-> last, hist |-> hist, cur |-> cur]

\* _fit_hmm: the rows used are obs_df.loc[:asof_date] (all rows when asof_date
\* is None, written here as asof = dataEnd); None when fewer than 60 rows or
\* when the fit raises (fitRaises).  `cur` is the posterior of the last row.
FitHmmLast(asof, dataEnd) == Min2(asof, dataEnd)
FitHmm(level, asof, dataEnd, fitRaises, hist, cur) ==
    LET last == FitHmmLast(asof, dataEnd)
        first == ObsFirst[level]
    IN  IF last - first + 1 < MinHmmRows \/ fitRaises
        THEN NoDf
        ELSE LevelDf(first, last, hist, cur)

Merge(g, d) == [k \in ProbKeys |-> IF k \in GlobalKeys THEN g[k] ELSE d[k]]
FillGlobal   == [k \in GlobalKeys |-> FitFillPGlobal]
FillDomestic == [k \in DomesticKeys |-> FitFillPDomestic]

\* RegimeModel.fit, the combination of the two levels (both levels are cut at
\* the same asof_date, so their last rows coincide).  When both levels fail
\* the attribute regime_probs is left as it was.
CombineLevels(old, g, d) ==
    IF g.ok /\ d.ok THEN
        [fitted |-> TRUE,
         first |-> Max2(g.first, d.first), last |-> Min2(g.last, d.last),
         hist |-> Merge(g.hist, d.hist),
         cur |-> Merge(g.cur, d.cur)]
    ELSE IF g.ok THEN
        [fitted |-> TRUE, first |-> g.first, last |-> g.last,
         hist |-> Merge(g.hist, FillDomestic), cur |-> Merge(g.cur, FillDomestic)]
    ELSE IF d.ok THEN
        [fitted |-> TRUE, first |-> d.first, last |-> d.last,
         hist |-> Merge(FillGlobal, d.hist), cur |-> Merge(FillGlobal, d.cur)]
    ELSE old

\* The outcomes of one call of fit(asof_date): which level raises, and the
\* smoothed posteriors each level emits (earlier rows, last row).
FitOutcomes ==
    { [gRaises |-> gr, dRaises |-> dr, gHist |-> gh, dHist |-> dh,
       gCur |-> gc, dCur |-> dc] :
        gr \in BOOLEAN, dr \in BOOLEAN,
        gh \in {CalmGlobal}, dh \in DomesticRows,
        gc \in GlobalRows, dc \in DomesticRows }

\* The lines fit() logs: a level that returned None logged its failure.
FitLog(asof, dataEnd, o) ==
    [called |-> TRUE, asof |-> asof,
     global_ok |-> FitHmm("Global", asof, dataEnd, o.gRaises, o.gHist, o.gCur).ok,
     domestic_ok |-> FitHmm("Domestic", asof, dataEnd, o.dRaises, o.dHist, o.dCur).ok]

RegimeFit(old, asof, dataEnd, o) ==
    CombineLevels(old,
        FitHmm("Global", asof, dataEnd, o.gRaises, o.gHist, o.gCur),
        FitHmm("Domestic", asof, dataEnd, o.dRaises, o.dHist, o.dCur))

\* len(self.regime_probs) and self.regime_probs.loc[:date]
FrameLen(rp) == IF rp.last >= rp.first THEN rp.last - rp.first + 1 ELSE 0

\* RegimeModel.get_probs_at
GetProbsAt(rp, date) ==
    IF ~rp.fitted \/ FrameLen(rp) = 0 THEN Defaults
    ELSE IF date < rp.first THEN Defaults
    ELSE IF date >= rp.last THEN rp.cur
    ELSE rp.hist

\* ---- the regime model on its own: fit(asof_date) and get_probs_at(date)
\* The observables end at RegimeDataEnd; fits are asked at these dates and
\* probabilities at these.
RegimeDataEnd == 40
AsofDates  == {28, 30, 36, RegimeDataEnd}
QueryDates == {-31, -27, 0, 30, 36, RegimeDataEnd}

Fit(asof, o) ==
    /\ regime_probs' = RegimeFit(regime_probs, asof, RegimeDataEnd, o)
    /\ fit_log' = FitLog(asof, RegimeDataEnd, o)
    /\ UNCHANGED <<probs_out, notRegime>>

GetProbs(date) ==
    /\ probs_out' = [called |-> TRUE, date |-> date,
                     probs |-> GetProbsAt(regime_probs, date)]
    /\ UNCHANGED <<regime_probs, fit_log, notRegime>>

-----------------------------------------------------------------------------
(* EnsembleAlphaModels._compute_ensemble_weights *)

MODEL_NAMES == {"ridge", "gbm", "rf", "xgb"}
\* `min_obs = 12`
MinOosObs == 12
\* the longest OOS history explored
MaxPairs == 13

\* What the weighted-correlation block yields for one model with enough
\* pairs: `flat` when a standard-deviation guard fails, else the weighted
\* correlation in hundredths.
CorrVals == {-40, 0, 30, 60}
CorrOutcomes ==
    {[flat |-> TRUE, corr |-> 0]} \cup {[flat |-> FALSE, corr |-> c] : c \in CorrVals}

\* scores[model_name], with max(corr, 0) left out
ScoreUnclamped(len, oc) ==
    IF len < MinOosObs THEN 0
    ELSE IF oc.flat THEN 0
    ELSE oc.corr

\* scores[model_name]
Score(len, oc) ==
    IF len < MinOosObs THEN 0
    ELSE IF oc.flat THEN 0
    ELSE Max2(oc.corr, 0)

RECURSIVE SumOver(_, _)
SumOver(f, S) ==
    IF S = {} THEN 0
    ELSE LET x == CHOOSE y \in S : TRUE IN f[x] + SumOver(f, S \ {x})

\* a weight is the fraction n / d
EqualW == [m \in MODEL_NAMES |-> [n |-> 1, d |-> Cardinality(MODEL_NAMES)]]

ComputeEnsembleWeights(lens, ocs) ==
    IF \A m \in MODEL_NAMES : lens[m] = 0 THEN EqualW
    ELSE
        LET scores == [m \in MODEL_NAMES |-> Score(lens[m], ocs[m])]
            total  == SumOver(scores, MODEL_NAMES)
        IN  IF total > 0
            THEN [m \in MODEL_NAMES |-> [n |-> scores[m], d |-> total]]
            ELSE EqualW

\* the harness appends one (prediction, realised) pair for every model
UpdateOosHistory ==
    /\ \A m \in MODEL_NAMES : oos_len[m] < MaxPairs
    /\ oos_len' = [m \in MODEL_NAMES |-> oos_len[m] + 1]
    /\ UNCHANGED <<ens_out, notEns>>

\* fit_and_predict asks for the weights of the instrument
EnsembleWeights ==
    /\ \E ocs \in [MODEL_NAMES -> CorrOutcomes] :
          ens_out' = [called |-> TRUE, weights |-> ComputeEnsembleWeights(oos_len, ocs)]
    /\ UNCHANGED <<oos_len, notEns>>

EnsIdle ==
    /\ oos_len = [m \in MODEL_NAMES |-> 0]
    /\ ens_out = [called |-> FALSE]

-----------------------------------------------------------------------------
(* ProductionEngine.step: IC gating and score demeaning *)

\* Expected returns and scores are integers in units of 1/MuDen; IC values
\* are in hundredths; a gating scale is a numerator over GateDen.
MuDen   == 4 * 1000
GateDen == 4 * 10

\* cfg['ic_gating_threshold'], cfg['ic_gating_min_obs']
IcThreshold == 0
IcMinObs == 24
\* cfg.get('ic_gating_floor', 0.15), as a numerator over GateDen
IcFloor == (15 * GateDen) \div 100
\* `ic_max = max(ic_max, 0.1)` and the 0.1 of (ic_val + 0.1) / (ic_max + 0.1)
IcMaxFloor == 10
IcShift == 10
\* `min(ic_val / ic_max, 1.5)`, as a numerator over GateDen
IcBoostCap == (15 * GateDen) \div 10

\* the keys of mu, the values the alpha models hand over (multiples of
\* GateDen, so that the gated value is a whole number of units), and the
\* rolling ICs the harness passes
MuKeys == {"fx", "front"}
MuVals == {-40, 0, 40}
IcVals == {-20, -5, 0, 30}
IcScores == UNION { [S -> IcVals] : S \in SUBSET MuKeys }

SetMax(S) == CHOOSE x \in S : \A y \in S : y <= x
Clip(x, lo, hi) == Max2(lo, Min2(x, hi))

\* ic_max: the largest IC passed, floored at 0.1
IcMax(ic_scores) ==
    Max2(SetMax({ ic_scores[k] : k \in DOMAIN ic_scores }), IcMaxFloor)

\* n_obs = ic_scores.get(f'{inst}_n', ic_min_obs): the harness passes no
\* '<inst>_n' key, so the default is what is read.
NObs(ic_scores, inst) == IcMinObs

\* the factor applied to mu[inst], as a numerator over GateDen.  The
\* quotient is exact for the ICs explored (ic_max + 0.1 is 0.2 or 0.4).
GateScale(ic_val, ic_max) ==
    IF ic_val < IcThreshold
    THEN Clip(Max2(IcFloor, (GateDen * (ic_val + IcShift)) \div (ic_max + IcShift)),
              IcFloor, GateDen)
    ELSE IF ic_val > 0
    THEN Max2(Min2((GateDen * ic_val) \div ic_max, IcBoostCap), GateDen)
    ELSE GateDen

\* step 2b: the mu dict after the gating loop
IcGate(mu, ic_scores) ==
    IF DOMAIN ic_scores = {} THEN mu
    ELSE [inst \in DOMAIN mu |->
            IF inst \in DOMAIN ic_scores /\ NObs(ic_scores, inst) >= IcMinObs
            THEN (mu[inst] * GateScale(ic_scores[inst], IcMax(ic_scores))) \div GateDen
            ELSE mu[inst]]

\* cfg['score_demeaning_window'], `len(history) < 12`, the 0.5 std floor
DemeaningWindow == 60
MinScoreHistory == 12
ScoreStdFloor == MuDen \div 2
\* `abs(raw_score) > 0.005`
RawScoreMin == (5 * MuDen) \div 1000

RECURSIVE SeqSum(_)
SeqSum(q) == IF q = <<>> THEN 0 ELSE Head(q) + SeqSum(Tail(q))
RECURSIVE SeqSumSq(_)
SeqSumSq(q) == IF q = <<>> THEN 0 ELSE Head(q) * Head(q) + SeqSumSq(Tail(q))
RECURSIVE ISqrtIn(_, _, _)
ISqrtIn(n, lo, hi) ==
    IF lo >= hi THEN lo
    ELSE LET mid == (lo + hi + 1) \div 2
         IN  IF mid * mid <= n THEN ISqrtIn(n, mid, hi) ELSE ISqrtIn(n, lo, mid - 1)
\* np.sqrt to the whole unit below
ISqrt(n) == ISqrtIn(n, 0, Min2(n, 46340))

\* self.raw_score_history[-window:]
LastWindow(hist) ==
    IF Len(hist) > DemeaningWindow
    THEN SubSeq(hist, Len(hist) - DemeaningWindow + 1, Len(hist))
    ELSE hist

\* _demean_score (after the append): the value returned, as the fraction
\* n / d.  With L = len(history), S its sum and Q its sum of squares,
\* np.std is sqrt(L*Q - S*S) / L and the result (raw - S/L) / std_w.
DemeanScore(hist, raw_score) ==
    LET history == LastWindow(hist)
        L == Len(history)
        S == SeqSum(history)
        Q == SeqSumSq(history)
    IN  IF L < MinScoreHistory THEN [n |-> raw_score, d |-> MuDen]
        ELSE [n |-> L * raw_score - S,
              d |-> Max2(ISqrt(L * Q - S * S), ScoreStdFloor * L)]

\* np.clip(n / d, -3, 3) for d # 0, as a fraction with a positive denominator
Clip3(n, d) ==
    LET nn == IF d < 0 THEN -n ELSE n
        dd == Abs(d)
    IN  IF nn > 3 * dd THEN [n |-> 3, d |-> 1]
        ELSE IF nn < -3 * dd THEN [n |-> -3, d |-> 1]
        ELSE [n |-> nn, d |-> dd]

\* step 3: scale_factor
ScaleFactor(raw_score, dem) ==
    IF Abs(raw_score) > RawScoreMin
    THEN Clip3(dem.n * MuDen, dem.d * raw_score)
    ELSE IF 100 * Abs(dem.n) < dem.d THEN [n |-> 1, d |-> 1]
    ELSE [n |-> 0, d |-> 1]

\* BacktestHarness.run, `len(ic_history[inst]) >= 12`
MinIcPairs == 12
\* the (prediction, realised) pairs an instrument can have when a step begins
PairCounts == {11, 12, 23, 24}
\* The keys of the ic_scores the harness builds: an instrument with 12 pairs
\* or more gets its IC when neither series is constant, and no other key
\* ('<inst>_n' included) is ever written.
HarnessIcKeys(n_pairs) ==
    { S \in SUBSET MuKeys : \A k \in S : n_pairs[k] >= MinIcPairs }

\* The stages 2b and 3 of one step, on the ic_scores the harness hands over;
\* mu_demeaned[inst] is mu_gated[inst] times scale_factor.
StepMu ==
    /\ ~mu_out.called
    /\ \E mu \in [MuKeys -> MuVals], n_pairs \in [MuKeys -> PairCounts],
          ic_scores \in IcScores :
        LET gated     == IcGate(mu, ic_scores)
            raw_score == SumOver(gated, MuKeys)
            hist      == Append(raw_score_history, raw_score)
            dem       == DemeanScore(hist, raw_score)
        IN  /\ DOMAIN ic_scores \in HarnessIcKeys(n_pairs)
            /\ raw_score_history' = hist
            /\ mu_out' = [called |-> TRUE, mu |-> mu, ic_scores |-> ic_scores,
                          n_pairs |-> n_pairs,
                          mu_gated |-> gated, raw_score |-> raw_score,
                          demeaned_score |-> dem,
                          scale_factor |-> ScaleFactor(raw_score, dem)]
    /\ UNCHANGED notMu

\* Score buffers the engine can hold when a step begins: months of a steady
\* score, or of one that swings between two values.
HistLens == {0, 10, 11, 12}
HistPairs == {<<0, 0>>, <<80, 80>>, <<2400, -2400>>}
ScoreHistories ==
    { [k \in 1..len |-> IF k % 2 = 1 THEN ab[1] ELSE ab[2]] :
        len \in HistLens, ab \in HistPairs }

MuIdle ==
    /\ raw_score_history = <<>>
    /\ mu_out = [called |-> FALSE]

-----------------------------------------------------------------------------
(* Optimizer.optimize and RiskOverlays.apply *)

\* Weights and scale factors are fractions n / d with d > 0, kept in lowest
\* terms.  Position limits are in hundredths, mu_adj and the drawdown and
\* volatility inputs in thousandths.
RECURSIVE Gcd(_, _)
Gcd(a, b) == IF b = 0 THEN a ELSE Gcd(b, a % b)
Frac(n, d) ==
    LET g == Gcd(Abs(n), Abs(d))
        sg == IF d < 0 THEN -1 ELSE 1
    IN  [n |-> sg * (n \div g), d |-> sg * (d \div g)]
FMul(a, b) == Frac(a.n * b.n, a.d * b.d)
FLeq(a, b) == a.n * b.d <= b.n * a.d
FMax(a, b) == IF FLeq(b, a) THEN a ELSE b
FAbs(a) == [n |-> Abs(a.n), d |-> a.d]

Instruments == {"fx", "front", "belly", "long", "hard", "ntnb"}

\* cfg['regime_position_limits'] (carry equals cfg['position_limits'])
CarryLimits   == [fx |-> 100, front |-> 150, belly |-> 150, long |-> 75, hard |-> 100, ntnb |-> 50]
RiskoffLimits == [fx |-> 80, front |-> 100, belly |-> 75, long |-> 40, hard |-> 60, ntnb |-> 30]
StressLimits  == [fx |-> 50, front |-> 50, belly |-> 40, long |-> 25, hard |-> 30, ntnb |-> 15]
LimitDen == PScale * 100

\* max_w of one instrument: the probability-weighted blend of the three tables
MaxW(inst, probs) ==
    Frac(probs.P_carry * CarryLimits[inst] + probs.P_riskoff * RiskoffLimits[inst]
            + probs.P_stress * StressLimits[inst], LimitDen)

\* `if ic_scores and len(ic_scores) >= 3`
MinIcForBudget == 3
\* budget_scale[i]
BudgetScale(inst, ic_scores) ==
    IF Cardinality(DOMAIN ic_scores) >= MinIcForBudget
    THEN LET ic_pos == [k \in Instruments |->
                          IF k \in DOMAIN ic_scores THEN Max2(ic_scores[k], 0) ELSE 0]
             total_ic == SumOver(ic_pos, Instruments)
         IN  IF total_ic > 0
             THEN Frac(ic_pos[inst] * Cardinality(Instruments), total_ic)
             ELSE Frac(1, 2)
    ELSE Frac(1, 1)

\* the fallback weight: mu_vec[i] * budget_scale[i] * 0.5
FallbackWeight(inst, mu, ic_scores) ==
    FMul(FMul(Frac(mu[inst], 1000), BudgetScale(inst, ic_scores)), Frac(1, 2))

\* What minimize() does: it returns a point of the box with success set, or
\* it reports failure or raises.  A point is given per instrument as the
\* number of halves of max_w.
SolverPoints ==
    { [inst \in Instruments |-> h] : h \in {-2, -1, 0, 1, 2} }
        \cup { [inst \in Instruments |-> IF inst \in {"fx", "long"} THEN 2 ELSE -1] }
SolverOutcomes ==
    {[success |-> FALSE, x |-> [inst \in Instruments |-> 0]]}
        \cup {[success |-> TRUE, x |-> pt] : pt \in SolverPoints}

\* Optimizer.optimize
Optimize(mu, ic_scores, probs, sol) ==
    [inst \in Instruments |->
        IF sol.success
        THEN FMul(Frac(sol.x[inst], 2), MaxW(inst, probs))
        ELSE FallbackWeight(inst, mu, ic_scores)]

\* cfg['drawdown_overlay'] (thousandths; scales in tenths) and the floor
Dd5 == -50
Dd10 == -100
ScaleAtDd5 == 5
ScaleAtDd10 == 0
DdScaleFloor == Frac(1, 10)

\* the drawdown scale without `scale = max(scale, 0.10)`
DdScaleNoFloor(drawdown) ==
    IF drawdown <= Dd10 THEN Frac(ScaleAtDd10, 10)
    ELSE IF drawdown <= Dd5
    THEN Frac(ScaleAtDd5 * (drawdown - Dd10), 10 * (Dd5 - Dd10))
    ELSE IF drawdown <= 0
    THEN Frac(10 * (drawdown - Dd5) - ScaleAtDd5 * drawdown, -10 * Dd5)
    ELSE Frac(1, 1)

\* the drawdown scale of RiskOverlays.apply
DdScale(drawdown) ==
    LET raw ==
            IF drawdown <= Dd10 THEN Frac(ScaleAtDd10, 10)
            ELSE IF drawdown <= Dd5
            THEN \* frac = (drawdown - dd_5) / (dd_10 - dd_5)
                 LET den == Dd5 - Dd10
                     num == Dd5 - drawdown
                 IN  Frac(ScaleAtDd5 * (den - num) + ScaleAtDd10 * num, 10 * den)
            ELSE IF drawdown <= 0
            THEN \* frac = drawdown / dd_5
                 LET den == -Dd5
                     num == -drawdown
                 IN  Frac(10 * (den - num) + ScaleAtDd5 * num, 10 * den)
            ELSE Frac(1, 1)
    IN  FMax(raw, DdScaleFloor)

\* cfg['risk_targets']['overlay_vol_target_annual'], thousandths
VolTarget == 100
\* the volatility scale without the cap min(1.0, ...)
VolScaleUncapped(realized_vol) ==
    IF realized_vol > 0 THEN Frac(VolTarget, realized_vol) ELSE Frac(1, 1)

\* min(1.0, vol_target / realized_vol), applied when realized_vol > 0
VolScale(realized_vol) ==
    IF realized_vol > 0 /\ VolTarget < realized_vol
    THEN Frac(VolTarget, realized_vol)
    ELSE Frac(1, 1)

\* `p_riskoff > 0.7 and p_domestic_stress > 0.7`
CbThreshold == 70
CircuitBreakerOn(probs) ==
    probs.P_riskoff > CbThreshold /\ probs.P_domestic_stress > CbThreshold
\* the factors of the circuit breaker, in tenths (fx is not touched)
CbCut == [fx |-> 10, front |-> 7, belly |-> 5, long |-> 5, hard |-> 4, ntnb |-> 4]

\* the circuit breaker with every cut taken twice
CircuitBreakerTwice(w, probs) ==
    IF CircuitBreakerOn(probs)
    THEN [k \in DOMAIN w |-> FMul(w[k], Frac(CbCut[k] * CbCut[k], 100))]
    ELSE w

CircuitBreaker(w, probs) ==
    IF CircuitBreakerOn(probs)
    THEN [k \in DOMAIN w |-> FMul(w[k], Frac(CbCut[k], 10))]
    ELSE w

\* RiskOverlays.apply
ApplyOverlays(weights, drawdown, realized_vol, probs) ==
    LET w1 == [k \in DOMAIN weights |-> FMul(weights[k], DdScale(drawdown))]
        w2 == [k \in DOMAIN w1 |-> FMul(w1[k], VolScale(realized_vol))]
    IN  CircuitBreaker(w2, probs)

\* cfg['tc_regime_multipliers'], in tenths
TcRegimeMults ==
    [carry |-> 10, riskoff |-> 15, stress |-> 25, domestic_stress |-> 20,
     domestic_calm |-> 10]
\* `tc_mult = max(tc_mult, 0.5)`, in thousandths
TcMultFloor == 500
\* regime_probs.get(key, 0)
ProbGet(probs, key) == IF key \in DOMAIN probs THEN probs[key] ELSE 0
\* tc_mult, in thousandths: the sum over the keys of tc_regime_multipliers of
\* regime_probs.get(regime, 0) * multiplier, floored
TcMult(probs) ==
    Max2(SumOver([regime \in DOMAIN TcRegimeMults |->
                      ProbGet(probs, regime) * TcRegimeMults[regime]],
                 DOMAIN TcRegimeMults),
         TcMultFloor)
\* round(tc_mult, 2), in hundredths
Round2(x) == (x + 5) \div 10

\* round(w, 4), in units of 0.0001
Round4(w) == (2 * 10000 * w.n + w.d) \div (2 * w.d)

\* The inputs explored.
MuAdjVals == {-80, 0, 10, 80}
MuAdjProfiles == { [inst \in Instruments |-> m] : m \in MuAdjVals }
BudgetIcProfiles ==
    { <<>>,
      [inst \in {"fx", "front"} |-> 20],
      [inst \in Instruments |-> -10],
      [inst \in Instruments |-> 20],
      [inst \in Instruments |-> IF inst = "ntnb" THEN 30 ELSE -10],
      [inst \in Instruments |-> IF inst = "fx" THEN 30 ELSE 0] }
CbBoundary ==
    [P_carry |-> 20, P_riskoff |-> 70, P_stress |-> 10,
     P_domestic_calm |-> 30, P_domestic_stress |-> 70]
ProbProfiles ==
    {Defaults, CbBoundary} \cup { Merge(g, d) : g \in GlobalRows, d \in DomesticRows }
DrawdownVals == {-120, -100, -96, -90, -75, -50, -20, 0, 10}
RealizedVolVals == {0, 50, 100, 200}

\* Steps 6 and 7 of one step, and the weights the harness records from them.
StepWeights ==
    /\ ~w_out.called
    /\ \E mu \in MuAdjProfiles, ic_scores \in BudgetIcProfiles, probs \in ProbProfiles,
          sol \in SolverOutcomes, drawdown \in DrawdownVals,
          realized_vol \in RealizedVolVals :
        LET opt     == Optimize(mu, ic_scores, probs, sol)
            weights == ApplyOverlays(opt, drawdown, realized_vol, probs)
        IN  w_out' = [called |-> TRUE, mu |-> mu, ic_scores |-> ic_scores,
                      probs |-> probs, success |-> sol.success,
                      drawdown |-> drawdown, realized_vol |-> realized_vol,
                      optimized |-> opt, weights |-> weights,
                      recorded |-> [k \in Instruments |-> Round4(weights[k])],
                      tc_mult |-> TcMult(probs),
                      tc_mult_recorded |-> Round2(TcMult(probs))]
    /\ UNCHANGED notWeights

WeightsIdle == w_out = [called |-> FALSE]

-----------------------------------------------------------------------------
(* BacktestHarness.run *)

\* `if len(ret_df) < 72`
MinBacktestRows == 72
\* the trailing-peak window: `if len(records) >= 12`, `records[-12:]`
TrailWindow == 12
\* the longest walk explored: training_window >= n_rows - MaxWalk
MaxWalk == 3

RetDen == 2 * 5            \* monthly returns are r / RetDen

Columns == {"fx"}          \* ret_df.columns of the data set explored

\* Inputs of one month: the row of ret_df, the cash and Ibovespa returns of
\* that month (0: the month is missing from the series), and the weights
\* ProductionEngine.step hands back.
RetVals        == {-1, 1}
CashVals       == {1}
IbovVals       == {0, 1}
StepWeightVals == {0, 1}
RefitIntervals == {2, 12}

\* The fit outcomes explored during a walk.
StressGlobal   == [P_carry |-> 10, P_riskoff |-> 80, P_stress |-> 10]
StressDomestic == [P_domestic_calm |-> 20, P_domestic_stress |-> 80]
WalkFitOutcomes ==
    { o \in FitOutcomes :
        /\ o.dHist = CalmDomestic
        /\ <<o.gCur, o.dCur>> \in {<<CalmGlobal, CalmDomestic>>, <<StressGlobal, StressDomestic>>}
        /\ (o.gRaises \/ o.dRaises) => (o.gCur = CalmGlobal /\ o.gRaises) }

\* An equity value n / RetDen^e
One == [n |-> 1, e |-> 0]
\* eq *= (1 + r)
Compound(eq, r) == [n |-> eq.n * (RetDen + r), e |-> eq.e + 1]
RLeq(a, b) == a.n * Pow(RetDen, b.e) <= b.n * Pow(RetDen, a.e)
REq(a, b)  == a.n * Pow(RetDen, b.e) = b.n * Pow(RetDen, a.e)
\* max(a, b)
RMax(a, b) == IF RLeq(b, a) THEN a ELSE b
RMaxOf(S) == CHOOSE x \in S : \A y \in S : RLeq(y, x)
\* (eq - peak) / peak, as a fraction n / d
Drawdown(eq, peak) ==
    LET m  == Max2(eq.e, peak.e)
        en == eq.n * Pow(RetDen, m - eq.e)
        pn == peak.n * Pow(RetDen, m - peak.e)
    IN  [n |-> en - pn, d |-> pn]

\* dates = ret_df.index[start_idx:]
WalkLen == n_rows - training_window
DateOf(k) == training_window + k
\* prev_date = ret_df.index[ret_df.index.get_loc(date) - 1]
PrevDate(k) == DateOf(k) - 1

\* The initial fit before the walk: asof is ret_df.index[train_window] when
\* the frame is longer than the training window, else all data.
InitialAsof == IF n_rows > training_window THEN training_window ELSE n_rows - 1

\* the refit due one step late: i - last_regime_refit > interval
RefitDueLate(k) == k - last_regime_refit > regime_refit_interval

\* The (re)fit of one iteration: due when i - last_regime_refit >= interval.
RefitDue(k) == k - last_regime_refit >= regime_refit_interval
StepRegime(k, o) ==
    IF RefitDue(k) THEN RegimeFit(regime_probs, PrevDate(k), n_rows - 1, o)
    ELSE regime_probs

\* The trailing peak reset of the loop body.
TrailOverlay(recs) == RMaxOf({ recs[k].equity_overlay : k \in (Len(recs) - TrailWindow + 1)..Len(recs) })
TrailTotal(recs)   == RMaxOf({ recs[k].equity_total : k \in (Len(recs) - TrailWindow + 1)..Len(recs) })
LoopPeakOverlay(recs, pk, eq) ==
    IF Len(recs) >= TrailWindow THEN RMax(TrailOverlay(recs), eq) ELSE RMax(pk, eq)
LoopPeakTotal(recs, pk, eq) ==
    IF Len(recs) >= TrailWindow THEN RMax(TrailTotal(recs), eq) ELSE RMax(pk, eq)

\* equity_overlay += overlay_ret (returns added, not compounded)
LoopEquityOverlayAdditive(eq, overlay_ret) ==
    [n |-> eq.n * RetDen + overlay_ret * Pow(RetDen, eq.e), e |-> eq.e + 1]
\* equity_overlay *= (1 + overlay_ret)
LoopEquityOverlay(eq, overlay_ret) == Compound(eq, overlay_ret)
\* equity_total *= (1 + total_ret)
LoopEquityTotal(eq, total_ret) == Compound(eq, total_ret)
\* equity_ibov *= (1 + ibov_r)
LoopEquityIbov(eq, ibov_r) == Compound(eq, ibov_r)

RunStart ==
    /\ hpc = "new"
    /\ \E o \in WalkFitOutcomes :
          /\ regime_probs' = RegimeFit(regime_probs, InitialAsof, n_rows - 1, o)
          /\ fit_log' = FitLog(InitialAsof, n_rows - 1, o)
    /\ last_regime_refit' = 0
    /\ hpc' = IF n_rows < MinBacktestRows THEN "insufficient" ELSE "walk"
    /\ UNCHANGED <<probs_out, n_rows, training_window, regime_refit_interval, i,
                   equity_overlay, equity_total, equity_ibov, peak_overlay,
                   peak_total, peak_ibov, prev_weights, records, results,
                   notHarness>>

RunStep ==
    /\ hpc = "walk"
    /\ i < WalkLen
    /\ \E o \in WalkFitOutcomes, w \in [Columns -> StepWeightVals],
          r \in [Columns -> RetVals], cash_r \in CashVals, ibov_r \in IbovVals :
        LET rp          == StepRegime(i, o)
            probs       == GetProbsAt(rp, PrevDate(i))
            pnl         == [c \in Columns |-> w[c] * r[c]]
            overlay_ret == SumOver(pnl, Columns)
            total_ret   == cash_r + overlay_ret
            eqo         == LoopEquityOverlay(equity_overlay, overlay_ret)
            eqt         == LoopEquityTotal(equity_total, total_ret)
            eqi         == LoopEquityIbov(equity_ibov, ibov_r)
            pko         == LoopPeakOverlay(records, peak_overlay, eqo)
            pkt         == LoopPeakTotal(records, peak_total, eqt)
            pki         == RMax(peak_ibov, eqi)
            rec == [date |-> DateOf(i),
                    equity_overlay |-> eqo, equity_total |-> eqt,
                    overlay_return |-> overlay_ret, cash_return |-> cash_r,
                    total_return |-> total_ret,
                    drawdown_overlay |-> Drawdown(eqo, pko),
                    drawdown_total |-> Drawdown(eqt, pkt),
                    weights |-> w, probs |-> probs,
                    ibov_return |-> ibov_r, equity_ibov |-> eqi,
                    drawdown_ibov |-> Drawdown(eqi, pki)]
        IN  /\ regime_probs' = rp
            /\ fit_log' = IF RefitDue(i) THEN FitLog(PrevDate(i), n_rows - 1, o)
                                          ELSE fit_log
            /\ probs_out' = [called |-> TRUE, date |-> PrevDate(i), probs |-> probs]
            /\ last_regime_refit' = IF RefitDue(i) THEN i ELSE last_regime_refit
            /\ equity_overlay' = eqo
            /\ equity_total' = eqt
            /\ equity_ibov' = eqi
            /\ peak_overlay' = pko
            /\ peak_total' = pkt
            /\ peak_ibov' = pki
            /\ records' = Append(records, rec)
            /\ prev_weights' = w
    /\ i' = i + 1
    /\ UNCHANGED <<n_rows, training_window, regime_refit_interval, hpc, results,
                   notHarness>>

\* The trimming after the loop.
ActiveIdx(recs) == { k \in 1..Len(recs) : Abs(recs[k].overlay_return) > 0 }
\* 0: no active month (active_start is None); else the first active record
ActiveStart(recs) ==
    IF ActiveIdx(recs) = {} THEN 0
    ELSE CHOOSE k \in ActiveIdx(recs) : \A m \in ActiveIdx(recs) : k <= m

RECURSIVE Rebase(_, _, _, _, _, _)
\* the loop `for j, rec in enumerate(trimmed)`; done holds trimmed[0..j-1]
\* as already rewritten.
Rebase(todo, done, eq_overlay, eq_total, peak_ov, peak_tot) ==
    IF todo = <<>> THEN done
    ELSE
        LET rec  == Head(todo)
            j    == Len(done)
            eqo  == Compound(eq_overlay, rec.overlay_return)
            eqt  == Compound(eq_total, rec.total_return)
            pko  == IF j >= TrailWindow
                    THEN RMax(RMaxOf({ done[k].equity_overlay : k \in (j - TrailWindow + 1)..j }), eqo)
                    ELSE RMax(peak_ov, eqo)
            pkt  == IF j >= TrailWindow
                    THEN RMax(RMaxOf({ done[k].equity_total : k \in (j - TrailWindow + 1)..j }), eqt)
                    ELSE RMax(peak_tot, eqt)
            new  == [rec EXCEPT !.equity_overlay = eqo, !.equity_total = eqt,
                                !.drawdown_overlay = Drawdown(eqo, pko),
                                !.drawdown_total = Drawdown(eqt, pkt)]
        IN  Rebase(Tail(todo), Append(done, new), eqo, eqt, pko, pkt)

Trim(recs) ==
    LET active_start == ActiveStart(recs)
    IN  IF active_start > 1
        THEN Rebase(SubSeq(recs, active_start, Len(recs)), <<>>, One, One, One, One)
        ELSE recs

RunFinish ==
    /\ hpc = "walk"
    /\ i = WalkLen
    /\ results' = Trim(records)
    /\ hpc' = "done"
    /\ UNCHANGED <<regimeVars, n_rows, training_window, regime_refit_interval, i,
                   last_regime_refit, equity_overlay, equity_total, equity_ibov,
                   peak_overlay, peak_total, peak_ibov, prev_weights, records,
                   notHarness>>

HarnessIdle ==
    /\ hpc = "new" /\ i = 0 /\ last_regime_refit = 0
    /\ equity_overlay = One /\ equity_total = One /\ equity_ibov = One
    /\ peak_overlay = One /\ peak_total = One /\ peak_ibov = One
    /\ prev_weights = [c \in Columns |-> 0]
    /\ records = <<>> /\ results = <<>>

RegimeIdle ==
    /\ regime_probs = NoFit
    /\ probs_out = [called |-> FALSE]
    /\ fit_log = [called |-> FALSE]

-----------------------------------------------------------------------------
(* The harness on a data set and on a prefix of it *)

\* `if len(s) < 10: return s`
WinsorMinLen == 10
\* the quantiles of winsorize, in percent
WinsorLower == 5
WinsorUpper == 95
\* DEFAULT_CONFIG['training_window_months']
TrainingWindowDefault == 36
\* the rows of the full data set explored
FullRows == 74

\* the k-th smallest entry of q (k from 0)
SortedAt(q, k) ==
    CHOOSE v \in { q[j] : j \in 1..Len(q) } :
        /\ Cardinality({ j \in 1..Len(q) : q[j] < v }) <= k
        /\ k < Cardinality({ j \in 1..Len(q) : q[j] <= v })

\* s.quantile(pct / 100) with linear interpolation, times 100
Quantile100(q, pct) ==
    LET h  == (Len(q) - 1) * pct
        lo == h \div 100
        fr == h % 100
        a  == SortedAt(q, lo)
        b  == SortedAt(q, Min2(lo + 1, Len(q) - 1))
    IN  a * 100 + (b - a) * fr

\* winsorize(s): the entries times 100, clipped to the two quantiles of the
\* whole series
Winsorize(q) ==
    IF Len(q) < WinsorMinLen THEN [k \in 1..Len(q) |-> q[k] * 100]
    ELSE LET lo == Quantile100(q, WinsorLower)
             hi == Quantile100(q, WinsorUpper)
         IN  [k \in 1..Len(q) |-> Clip(q[k] * 100, lo, hi)]

\* The records of BacktestHarness.run on the rows q, as overlay_return by
\* date, after the trimming of the leading months without overlay return.
\* The engine is taken to put the weight w on `front` at every step.
HarnessRecords(q, w) ==
    LET ret_df == Winsorize(q)
        n      == Len(q)
        dates  == IF n < MinBacktestRows THEN {} ELSE TrainingWindowDefault..(n - 1)
        ovr    == [d \in dates |-> w * ret_df[d + 1]]
        active == { d \in dates : ovr[d] # 0 }
    IN  IF active = {} THEN ovr
        ELSE [d \in { x \in dates : \E y \in active : y <= x } |-> ovr[d]]

NoRun == [done |-> FALSE]

\* run() on the whole data set
RunFull ==
    /\ ~full_run.done
    /\ full_run' = [done |-> TRUE, rows |-> Len(raw_front),
                    records |-> HarnessRecords(raw_front, engine_w)]
    /\ UNCHANGED <<raw_front, engine_w, prefix_run, notPrefix>>

\* run() on the data set truncated to its first `rows` rows
RunPrefix(rows) ==
    /\ ~prefix_run.done
    /\ prefix_run' = [done |-> TRUE, rows |-> rows,
                      records |-> HarnessRecords(SubSeq(raw_front, 1, rows), engine_w)]
    /\ UNCHANGED <<raw_front, engine_w, full_run, notPrefix>>

\* The data sets explored: a spread of distinct monthly returns, the last
\* two months free.
SeriesSeeds == 0..6
TailVals == {-60, 0, 60}
BodyAt(k, seed) == ((k * 37 + seed * 13) % 101) - 50
RawSeries ==
    { [k \in 1..FullRows |->
          IF k = FullRows - 1 THEN t1
          ELSE IF k = FullRows THEN t2
          ELSE BodyAt(k, seed)] :
        seed \in SeriesSeeds, t1 \in TailVals, t2 \in TailVals }
EngineWeights == {1, 2}

PrefixIdle ==
    /\ raw_front = <<>>
    /\ engine_w = 0
    /\ full_run = NoRun
    /\ prefix_run = NoRun

-----------------------------------------------------------------------------
(* ProductionEngine.step: the hyperparameter cache and the feature           *)
(* re-selection of EnsembleAlphaModels                                      *)

\* ProductionEngine.hp_refit_interval
HpRefitInterval == 12
\* `if len(y) >= 60:  # need enough data for CV`
MinCvRows == 60
\* min(min_train, 36) of fit_and_predict, min_training_months being 36
MinFitRows == 36
\* EnsembleAlphaModels._fs_refit_cooldown
FsRefitCooldown == 6
\* EnsembleAlphaModels._fs_last_refit_step before any refit
FsNeverRefit == -999
\* cfg['ridge_lambda']
RidgeLambda == 10
\* the steps of one engine explored
MaxSteps == 14

\* the instruments of FEATURE_MAP followed here
EngineInstruments == {"fx", "front"}

\* A configuration: the ridge alpha and, for each tree learner, the index of
\* its entry in the grid of select_hyperparameters.
\* What hp.get(..., default) gives on an empty cache: ridge_lambda and the
\* literal defaults, which equal the second grid entries.
HpDefaults == [ridge_alpha |-> RidgeLambda, gbm |-> 1, rf |-> 1, xgb |-> 1]
\* select_hyperparameters: the best of each grid by CV score.  Explored: every
\* score tied (the first entries win) and the last entries winning.
HpOutcomes ==
    { [ridge_alpha |-> 1, gbm |-> 0, rf |-> 0, xgb |-> 0],
      [ridge_alpha |-> 50, gbm |-> 3, rf |-> 3, xgb |-> 3] }

\* the rows of y the refresh keeps: `if len(y) > window: y = y.iloc[-window:]`
RefreshRows(rows, window) == IF rows > window THEN window ELSE rows

\* `if self.step_count % self.hp_refit_interval == 1`
HpRefreshDue(count) == count % HpRefitInterval = 1

\* the refresh of step(): the cache after the loop over FEATURE_MAP
HpRefresh(cache, count, rows, window, best) ==
    IF HpRefreshDue(count) /\ RefreshRows(rows, window) >= MinCvRows
    THEN [inst \in DOMAIN cache \cup EngineInstruments |->
              IF inst \in EngineInstruments THEN best[inst] ELSE cache[inst]]
    ELSE cache

\* hp = self.hp_cache.get(inst, {}) and the hp.get(...) of each learner
HpUsed(cache, inst) == IF inst \in DOMAIN cache THEN cache[inst] ELSE HpDefaults

\* the regime with the largest probability; max() keeps the first of equals
Dominant(probs) ==
    IF probs.P_carry >= probs.P_riskoff /\ probs.P_carry >= probs.P_stress
    THEN "carry"
    ELSE IF probs.P_riskoff >= probs.P_stress THEN "riskoff" ELSE "stress"

NoRegime == "none"
FsInit ==
    [prev_dominant_regime |-> NoRegime, fs_refit_count |-> 0,
     fs_last_refit_step |-> FsNeverRefit, current_step |-> 0,
     regime_refit_flag |-> FALSE]

\* the change test with no regard for the first step
RegimeChangedFromNone(f, probs) == Dominant(probs) # f.prev_dominant_regime

\* the regime changed since the step before
RegimeChanged(f, probs) ==
    f.prev_dominant_regime # NoRegime /\ Dominant(probs) # f.prev_dominant_regime

\* the update with the cooldown test left out
UpdateRegimeNoCooldown(f, probs) ==
    LET step  == f.current_step + 1
        fires == RegimeChanged(f, probs)
    IN  [prev_dominant_regime |-> Dominant(probs),
         fs_refit_count |-> IF fires THEN f.fs_refit_count + 1 ELSE f.fs_refit_count,
         fs_last_refit_step |-> IF fires THEN step ELSE f.fs_last_refit_step,
         current_step |-> step,
         regime_refit_flag |-> fires]

\* the update that keeps the old regime while the cooldown blocks a change
UpdateRegimeDeferred(f, probs) ==
    LET step    == f.current_step + 1
        fires   == /\ RegimeChanged(f, probs)
                   /\ step - f.fs_last_refit_step >= FsRefitCooldown
        blocked == RegimeChanged(f, probs) /\ ~fires
    IN  [prev_dominant_regime |-> IF blocked THEN f.prev_dominant_regime
                                             ELSE Dominant(probs),
         fs_refit_count |-> IF fires THEN f.fs_refit_count + 1 ELSE f.fs_refit_count,
         fs_last_refit_step |-> IF fires THEN step ELSE f.fs_last_refit_step,
         current_step |-> step,
         regime_refit_flag |-> fires]

\* update_regime_for_feature_selection: the fields after the call
UpdateRegimeForFs(f, probs) ==
    LET step  == f.current_step + 1
        fires == /\ RegimeChanged(f, probs)
                 /\ step - f.fs_last_refit_step >= FsRefitCooldown
    IN  [prev_dominant_regime |-> Dominant(probs),
         fs_refit_count |-> IF fires THEN f.fs_refit_count + 1 ELSE f.fs_refit_count,
         fs_last_refit_step |-> IF fires THEN step ELSE f.fs_last_refit_step,
         current_step |-> step,
         regime_refit_flag |-> fires]
\* ... and selected_features, cleared when the flag is set
ClearedFeatures(sel, f2) == IF f2.regime_refit_flag THEN {} ELSE sel

\* fit_and_predict: the instruments fitted at this step
Fitted(rows) == IF rows < MinFitRows THEN {} ELSE EngineInstruments
\* needs_reselection
NeedsReselection(inst, sel, f2) == inst \notin sel \/ f2.regime_refit_flag

\* the regime rows explored by the two specifications below
RegimeRows == { Merge(g, CalmDomestic) : g \in GlobalRows }
HistoryRows == {30, 36, 60}
WindowVals == {TrainingWindowDefault, 120}

\* One call of update_regime_for_feature_selection, with the log of what it
\* found.
UpdateRegime(probs) ==
    /\ fs.current_step < MaxSteps
    /\ LET f2 == UpdateRegimeForFs(fs, probs)
       IN  /\ fs' = f2
           /\ selected_features' = ClearedFeatures(selected_features, f2)
           /\ fs_shocks' = IF RegimeChanged(fs, probs)
                           THEN fs_shocks \cup {f2.current_step} ELSE fs_shocks
           /\ fs_fired' = IF f2.regime_refit_flag
                          THEN fs_fired \cup {f2.current_step} ELSE fs_fired
    /\ UNCHANGED <<cfg_window, step_count, hp_cache, alpha_hp_cache, eng_out, notEngine>>

\* ProductionEngine.step up to fit_and_predict: the refresh of the
\* hyperparameter cache, the regime update and the fit of the learners.
EngineStep(probs, rows, best) ==
    /\ step_count < MaxSteps
    /\ LET count == step_count + 1
           cache == HpRefresh(hp_cache, count, rows, cfg_window, best)
           f2    == UpdateRegimeForFs(fs, probs)
           sel   == ClearedFeatures(selected_features, f2)
       IN  /\ step_count' = count
           /\ hp_cache' = cache
           /\ fs' = f2
           /\ selected_features' = sel \cup Fitted(rows)
           /\ eng_out' =
                  [called |-> TRUE, step |-> count, rows |-> rows,
                   refresh_due |-> HpRefreshDue(count),
                   stored |-> IF HpRefreshDue(count)
                                    /\ RefreshRows(rows, cfg_window) >= MinCvRows
                              THEN EngineInstruments ELSE {},
                   cached_before |-> hp_cache,
                   fitted |-> Fitted(rows),
                   reselected |-> { inst \in Fitted(rows) : NeedsReselection(inst, sel, f2) },
                   hp_used |-> [inst \in Fitted(rows) |-> HpUsed(alpha_hp_cache, inst)]]
    /\ UNCHANGED <<cfg_window, alpha_hp_cache, fs_shocks, fs_fired, notEngine>>

EngineIdle ==
    /\ cfg_window = TrainingWindowDefault
    /\ step_count = 0
    /\ hp_cache = <<>>
    /\ alpha_hp_cache = <<>>
    /\ fs = FsInit
    /\ selected_features = {}
    /\ eng_out = [called |-> FALSE]
    /\ fs_shocks = {}
    /\ fs_fired = {}

-----------------------------------------------------------------------------
(* feature_selection.py: the random draws of DualFeatureSelector.select      *)

\* The global generator of numpy as a linear congruential generator: a state,
\* the state np.random.seed(s) sets and the state after one draw.  A draw
\* (permutation, choice) is determined by the state it is made in.
RngMod == 251
RngSeed(s) == (s * 17 + 1) % RngMod
RngNext(st) == (st * 31 + 7) % RngMod
\* The state at import: numpy seeds the generator from the entropy of the
\* operating system, so it is any state.
OsEntropy == {3, 5, 8}

\* `random_state=42 + iteration`, `np.random.seed(42 + i * 7)`
RandomStateBase == 42
StabilitySeedStep == 7
\* `if len(X_w) < 36` of DualFeatureSelector.select
MinSelectRows == 36
\* the iterations explored: n_iterations of validate_interactions and of
\* BorutaSelector.select, n_subsamples of StabilitySelector.run and
\* n_iterations of select_fast
ShadowIters == 2
Subsamples == 2
FastIters == 1
\* the calls of select() made in one process
MaxSelectCalls == 3

\* One draw: where it is made, whether its generator was seeded for it, and
\* the state that determines it.
Draw(site, seeded, st) == [site |-> site, seeded |-> seeded, st |-> st]

\* the shadow permutations of iterations k..n-1, drawn from the global
\* generator in state st (seeded tells whether the caller seeded it for
\* them), each followed by the forest fitted with random_state 42 + k
RECURSIVE ShadowDraws(_, _, _, _, _)
ShadowDraws(site, seeded, st, k, n) ==
    IF k = n THEN <<>>
    ELSE <<Draw(site, seeded, st), Draw("forest", TRUE, RngSeed(RandomStateBase + k))>>
             \o ShadowDraws(site, seeded, RngNext(st), k + 1, n)
RECURSIVE RngAfter(_, _)
RngAfter(st, n) == IF n = 0 THEN st ELSE RngAfter(RngNext(st), n - 1)

\* StabilitySelector.run: subsample i seeds the global generator with
\* 42 + 7 i, draws its indices, then runs select_fast (which permutes from
\* the global generator) and a forest with random_state 42 + i.
RECURSIVE StabilityDraws(_, _)
StabilityDraws(k, n) ==
    IF k = n THEN <<>>
    ELSE LET st == RngSeed(RandomStateBase + k * StabilitySeedStep)
         IN  <<Draw("choice", TRUE, st)>>
                 \o ShadowDraws("select_fast", TRUE, RngNext(st), 0, FastIters)
                 \o <<Draw("forest", TRUE, RngSeed(RandomStateBase + k))>>
                 \o StabilityDraws(k + 1, n)
\* the global state the last subsample leaves behind
StateAfterStability(st) ==
    IF Subsamples = 0 THEN st
    ELSE RngAfter(RngSeed(RandomStateBase + (Subsamples - 1) * StabilitySeedStep),
                  1 + FastIters)

\* DualFeatureSelector.select: the draws of one call and the global state it
\* leaves, from the global state st
Select(st, rows, has_ix) ==
    IF rows < MinSelectRows THEN [draws |-> <<>>, st |-> st]
    ELSE LET ix  == IF has_ix THEN ShadowDraws("validate_interactions", FALSE, st, 0, ShadowIters)
                    ELSE <<>>
             st1 == IF has_ix THEN RngAfter(st, ShadowIters) ELSE st
             en  == <<Draw("enet", TRUE, RngSeed(RandomStateBase))>>
             bo  == ShadowDraws("boruta", FALSE, st1, 0, ShadowIters)
             st2 == RngAfter(st1, ShadowIters)
         IN  [draws |-> ix \o en \o bo \o StabilityDraws(0, Subsamples),
              st |-> StateAfterStability(st2)]

Processes == {1, 2}
SelectRows == {30, 40}

\* select() called with the same data in both processes
SelectCall(rows, has_ix) ==
    /\ \A r \in Processes : Len(sel_out[r]) < MaxSelectCalls
    /\ np_random' = [r \in Processes |-> Select(np_random[r], rows, has_ix).st]
    /\ sel_out' = [r \in Processes |->
                      Append(sel_out[r], Select(np_random[r], rows, has_ix).draws)]
    /\ UNCHANGED <<cv_out, notSel>>

SelIdle ==
    /\ np_random = [r \in Processes |-> 0]
    /\ sel_out = [r \in Processes |-> <<>>]

-----------------------------------------------------------------------------
(* EnsembleAlphaModels.purged_kfold_cv *)

\* `if fold_size < 12`
MinFoldSize == 12
\* `if train_end < 24`, `len(X_train) < 24`
MinTrainRows == 24
\* `len(X_test) < 6`
MinTestRows == 6
\* the rows explored
MaxCvRows == 150

\* train_end with no purge gap
TrainEndNoPurge(test_start, purge_gap) == Max2(0, test_start)

\* `train_end = max(0, test_start - purge_gap)`
TrainEnd(test_start, purge_gap) == Max2(0, test_start - purge_gap)

\* The folds purged_kfold_cv fits and scores on n rows: the training rows are
\* 0..train_end-1 and the test rows test_start..test_end-1.
CvFolds(n, n_splits, purge_gap) ==
    LET fold_size == n \div n_splits
    IN  IF fold_size < MinFoldSize THEN {}
        ELSE { [fold |-> k,
                test_start |-> k * fold_size,
                test_end |-> Min2((k + 1) * fold_size, n),
                train_end |-> TrainEnd(k * fold_size, purge_gap)] :
               k \in { j \in 0..(n_splits - 1) :
                         LET test_start == j * fold_size
                             test_end   == Min2((j + 1) * fold_size, n)
                             train_end  == TrainEnd(test_start, purge_gap)
                         IN  /\ ~(train_end < MinTrainRows)
                             /\ ~(train_end < MinTrainRows \/ test_end - test_start < MinTestRows) } }

SplitVals == {3, 5}
PurgeVals == {0, 3, 5}

PurgedKfoldCv(n, n_splits, purge_gap) ==
    /\ ~cv_out.called
    /\ cv_out' = [called |-> TRUE, n |-> n, n_splits |-> n_splits,
                  purge_gap |-> purge_gap, folds |-> CvFolds(n, n_splits, purge_gap)]
    /\ UNCHANGED <<np_random, sel_out, notCv>>

CvIdle == cv_out = [called |-> FALSE]

-----------------------------------------------------------------------------
(* EnsembleAlphaModels.fit_and_predict: the mix of the four learners *)

\* What the learners predict for the instrument, in units of 1/MuDen.
PredVals == {-2, 4}
\* inst_preds[m]: the prediction, or 0.0 when the fit or the predict raised
InstPreds(preds, raises) ==
    [m \in MODEL_NAMES |-> IF m \in raises THEN 0 ELSE preds[m]]
\* mu_ensemble = sum(weights.get(m, 0.25) * inst_preds.get(m, 0)
\*                   for m in MODEL_NAMES), the weights sharing one denominator
MuEnsemble(weights, inst_preds) ==
    LET terms == [m \in MODEL_NAMES |-> weights[m].n * inst_preds[m]]
        d     == weights[CHOOSE m \in MODEL_NAMES : TRUE].d
    IN  Frac(SumOver(terms, MODEL_NAMES), d)

\* the OOS histories and correlations explored: none yet (equal weights), or
\* 12 pairs with the tree learners scored alike and Ridge alone or not at all
PredLens == { [m \in MODEL_NAMES |-> n] : n \in {0, MinOosObs} }
PredCorrs ==
    { [m \in MODEL_NAMES |-> [flat |-> FALSE, corr |-> IF m = "ridge" THEN r ELSE t]] :
        r \in {0, 60}, t \in {0, 30} }

\* The mix of one instrument in fit_and_predict, from the four try blocks to
\* mu_ensemble.
FitAndPredict ==
    /\ ~pred_out.called
    /\ \E preds \in [MODEL_NAMES -> PredVals], raises \in SUBSET MODEL_NAMES,
          lens \in PredLens, ocs \in PredCorrs :
        LET inst_preds == InstPreds(preds, raises)
            weights    == ComputeEnsembleWeights(lens, ocs)
        IN  pred_out' = [called |-> TRUE, preds |-> preds, raises |-> raises,
                         inst_preds |-> inst_preds, weights |-> weights,
                         mu_ensemble |-> MuEnsemble(weights, inst_preds)]
    /\ UNCHANGED notPred

PredIdle == pred_out = [called |-> FALSE]

-----------------------------------------------------------------------------
(* feature_selection.py: the snapshot file, the alerts and the changes *)

\* TemporalSelectionTracker.MAX_HISTORY
MaxHistory == 52
\* the run dates explored are 1..MaxRuns
MaxRuns == 3
RunDates == 1 .. MaxRuns

\* One instrument is followed.  A selection yields its final features and
\* the stability class of each feature of ClsFeatures.
ClsFeatures == {"f1"}
SelOutcomes ==
    { [final |-> {"f1", "f2"}, classification |-> [f \in ClsFeatures |-> "robust"]],
      [final |-> {"f1"},       classification |-> [f \in ClsFeatures |-> "moderate"]],
      [final |-> {"f2"},       classification |-> [f \in ClsFeatures |-> "unstable"]],
      [final |-> {"f1", "f2"}, classification |-> [f \in ClsFeatures |-> "unstable"]] }

\* prev_classification.get(feat, 'unknown')
ClassGet(cls, feat) == IF feat \in DOMAIN cls THEN cls[feat] ELSE "unknown"

\* the alert type of one transition, "none" when no branch matches
AlertType(prev_class, current_class) ==
    IF prev_class = "robust" /\ current_class = "unstable" THEN "critical"
    ELSE IF prev_class = "robust" /\ current_class = "moderate" THEN "warning"
    ELSE IF prev_class = "unstable" /\ current_class = "robust" THEN "info"
    ELSE "none"

\* the alerts of a current classification against a previous one
AlertsAgainst(prev_classification, current_classification) ==
    { [type |-> AlertType(ClassGet(prev_classification, feat), current_classification[feat]),
       feature |-> feat] :
        feat \in { f \in DOMAIN current_classification :
                     AlertType(ClassGet(prev_classification, f),
                               current_classification[f]) # "none" } }

\* InstabilityAlertDetector.detect_alerts: the previous classification is
\* that of the last snapshot of the file; no file or an empty list, no alert.
DetectAlerts(history, current_classification) ==
    IF Len(history) >= 1
    THEN AlertsAgainst(history[Len(history)].stability_classification,
                       current_classification)
    ELSE {}

\* the snapshots of the other dates: [h for h in history if h['date'] != run_date]
OtherDates(history, run_date) ==
    LET Keep(h) == h.date # run_date IN SelectSeq(history, Keep)

\* TemporalSelectionTracker.save_snapshot: the file after the call
SaveSnapshot(history, result, run_date) ==
    LET snapshot == [date |-> run_date, final_features |-> result.final,
                     stability_classification |-> result.classification]
        appended == Append(OtherDates(history, run_date), snapshot)
    IN  IF Len(appended) > MaxHistory
        THEN SubSeq(appended, Len(appended) - MaxHistory + 1, Len(appended))
        ELSE appended

\* TemporalSelectionTracker.detect_changes
DetectChanges(history, current_features) ==
    IF Len(history) < 2
    THEN [has_previous |-> FALSE, gained |-> {}, lost |-> {}]
    ELSE LET prev_features == history[Len(history)].final_features
         IN  [has_previous |-> TRUE,
              gained |-> current_features \ prev_features,
              lost |-> prev_features \ current_features]

NoResult == [has |-> FALSE]

\* One call of DualFeatureSelector.select for the instrument (a first
\* selection or a re-selection of the walk): the stability pass, the alerts,
\* and the result kept in feature_selection_results.
SelectRun(outcome) ==
    /\ sel_result' = [has |-> TRUE, final |-> outcome.final,
                      classification |-> outcome.classification]
    /\ alert_out' = [called |-> TRUE, previous |-> sel_result,
                     current |-> outcome.classification,
                     alerts |-> DetectAlerts(fs_history, outcome.classification)]
    /\ UNCHANGED <<fs_history, chg_out, notTrack>>

\* run_v2, the temporal tracking of one run dated run_date: save_snapshot,
\* then detect_changes on the same results.  `earlier` keeps what the file
\* held of the earlier runs when this run began.
RunV2Temporal(run_date) ==
    /\ sel_result.has
    /\ LET saved == SaveSnapshot(fs_history, sel_result, run_date)
       IN  /\ fs_history' = saved
           /\ chg_out' = [called |-> TRUE, run_date |-> run_date,
                          current |-> sel_result.final,
                          earlier |-> OtherDates(fs_history, run_date),
                          changes |-> DetectChanges(saved, sel_result.final)]
    /\ UNCHANGED <<sel_result, alert_out, notTrack>>

TrackIdle ==
    /\ fs_history = <<>>
    /\ sel_result = NoResult
    /\ alert_out = [called |-> FALSE]
    /\ chg_out = [called |-> FALSE]

-----------------------------------------------------------------------------
(* DualFeatureSelector.select: the merge, and the features each learner gets *)

\* `if len(final_set) < 3`
MinFinalFeatures == 3
\* available_feats of the instrument and the interaction terms built for it
BaseFeatures == {"f1", "f2", "f3", "f4"}
IxFeatures == {"IX_a"}
IsInteraction(f) == f \in IxFeatures

\* the merge strategy of select(): final_set
MergeFinal(columns, enet_selected, boruta_confirmed, boruta_tentative) ==
    LET final_set == (enet_selected \cup boruta_confirmed)
                        \cup { feat \in boruta_tentative : feat \in enet_selected }
    IN  IF Cardinality(final_set) < MinFinalFeatures THEN columns ELSE final_set

\* `x if x else available_feats`
OrAvailable(feats) == IF feats = {} THEN BaseFeatures ELSE feats

\* _run_feature_selection: the three lists kept in selected_features[inst]
RunFeatureSelection(columns, enet_selected, boruta_confirmed, boruta_tentative) ==
    [lasso  |-> OrAvailable(enet_selected),
     boruta |-> OrAvailable(boruta_confirmed \cup boruta_tentative),
     final  |-> OrAvailable(MergeFinal(columns, enet_selected, boruta_confirmed,
                                       boruta_tentative))]

\* fit_and_predict: the columns of X_w once the interactions of final_feats
\* are computed, and the columns handed to a learner
TrainColumns(final_feats) ==
    BaseFeatures \cup { f \in final_feats : IsInteraction(f) }
HandedTo(feats, final_feats) ==
    LET avail == feats \cap TrainColumns(final_feats)
    IN  IF avail = {} THEN TrainColumns(final_feats) ELSE avail

\* One selection of an instrument followed by the fit of its learners: the
\* interactions confirmed, the Elastic-Net and Boruta passes on the columns
\* with them, the merge, the feature lists of the learners.
SelectAndFit ==
    /\ ~merge_out.called
    /\ \E confirmed_ix \in SUBSET IxFeatures :
        LET columns == BaseFeatures \cup confirmed_ix
        IN  \E enet_selected \in SUBSET columns, boruta_confirmed \in SUBSET columns :
            \E boruta_tentative \in SUBSET (columns \ boruta_confirmed) :
                LET sel == RunFeatureSelection(columns, enet_selected,
                                               boruta_confirmed, boruta_tentative)
                IN  merge_out' =
                        [called |-> TRUE, columns |-> columns,
                         interactions_confirmed |-> confirmed_ix,
                         enet_selected |-> enet_selected,
                         boruta_confirmed |-> boruta_confirmed,
                         boruta_tentative |-> boruta_tentative,
                         final_features |-> MergeFinal(columns, enet_selected,
                                                boruta_confirmed, boruta_tentative),
                         selected |-> sel,
                         ridge_features |-> HandedTo(sel.lasso, sel.final),
                         tree_features |-> HandedTo(sel.boruta, sel.final)]
    /\ UNCHANGED notMerge

MergeIdle == merge_out = [called |-> FALSE]

-----------------------------------------------------------------------------
(* composite_equilibrium.py: the five r* models and their composite *)

\* r* and the rates are in thousandths of a percent (4.5 -> 4500), the
\* regime probabilities in quarters, the model weights in hundredths
RScale == 1000
\* composite.clip(2.0, 10.0), and the same range in models 1, 4 and 5
RStarMin == 2000
RStarMax == 10000
\* rstar.clip(2.0, 12.0) of RealRateParityRStar
ParityMax == 12000
\* np.clip(rstar_nominal, 6.0, 18.0) of MarketImpliedRStar
NominalMin == 6000
NominalMax == 18000

BASE_WEIGHTS ==
    [state_space |-> 30, market_implied |-> 25, fiscal |-> 20,
     parity |-> 15, regime |-> 10]
REGIME_WEIGHTS ==
    [carry |-> [state_space |-> 35, market_implied |-> 30, fiscal |-> 15,
                parity |-> 10, regime |-> 10],
     riskoff |-> [state_space |-> 20, market_implied |-> 25, fiscal |-> 10,
                  parity |-> 35, regime |-> 10],
     domestic_stress |-> [state_space |-> 10, market_implied |-> 15,
                          fiscal |-> 40, parity |-> 25, regime |-> 10]]
REGIME_RSTAR == [carry |-> 4500, riskoff |-> 5500, domestic_stress |-> 7000]

\* the four models of FeatureEngine._build_composite_equilibrium
FirstPassModels == {"fiscal", "parity", "market_implied", "state_space"}

\* what a model computes for a date before it clips
RawVals == {1500, 6000, 11000, 19000}
\* ipca_exp at the date; NoIpca: no inflation expectations series
NoIpca == -1
IpcaVals == {NoIpca, 4500}
\* regime probabilities (carry, riskoff, stress), in quarters
ProbChoices ==
    { [carry |-> 4, riskoff |-> 0, stress |-> 0],
      [carry |-> 0, riskoff |-> 4, stress |-> 0],
      [carry |-> 2, riskoff |-> 1, stress |-> 1],
      [carry |-> 0, riskoff |-> 0, stress |-> 0] }
\* neutral_probs = {'P_carry': 0.5, 'P_riskoff': 0.25, 'P_stress': 0.25}
NeutralProbs == [carry |-> 2, riskoff |-> 1, stress |-> 1]

\* FiscalAugmentedRStar.estimate: rstar[t]
FiscalEstimate(r_star_t) == Clip(r_star_t, RStarMin, RStarMax)

\* RealRateParityRStar.estimate: rstar at a date
ParityEstimate(rstar) == Clip(rstar, RStarMin, ParityMax)

\* MarketImpliedRStar.estimate: rstar_real at a date; the nominal rate is
\* clipped, the real rate is the clipped nominal less the expected inflation
MarketImpliedEstimate(rstar_nominal, ipca_exp) ==
    LET rstar == Clip(rstar_nominal, NominalMin, NominalMax)
    IN  IF ipca_exp = NoIpca THEN rstar ELSE rstar - ipca_exp

\* StateSpaceRStar.estimate: x[0] after the update
StateSpaceEstimate(x0) == Clip(x0, RStarMin, RStarMax)

\* p_carry /= total; ... else p_carry = 1.0 -- the probabilities as
\* numerators over den
NormProbs(p) ==
    LET total == p.carry + p.riskoff + p.stress
    IN  IF total > 0
        THEN [carry |-> p.carry, riskoff |-> p.riskoff, stress |-> p.stress,
              den |-> total]
        ELSE [carry |-> 1, riskoff |-> p.riskoff, stress |-> p.stress,
              den |-> 1]

\* RegimeSwitchingRStar.estimate: rstar.iloc[i]; adapted: row i is past the
\* window and the adaptive pass ran on it
RegimeSwitchingEstimate(p, adapted) ==
    LET n == NormProbs(p)
        r == (n.carry * REGIME_RSTAR.carry + n.riskoff * REGIME_RSTAR.riskoff
              + n.stress * REGIME_RSTAR.domestic_stress) \div n.den
    IN  IF adapted THEN Clip(r, RStarMin, RStarMax) ELSE r

\* the interpolated weights of compute, one for every name of BASE_WEIGHTS,
\* as numerators over (den * 100)
InterpWeights(probs) ==
    LET n == NormProbs(probs)
    IN  [model_name \in DOMAIN BASE_WEIGHTS |->
            n.carry * REGIME_WEIGHTS.carry[model_name]
            + n.riskoff * REGIME_WEIGHTS.riskoff[model_name]
            + n.stress * REGIME_WEIGHTS.domestic_stress[model_name]]

NoComposite == [has |-> FALSE]

\* CompositeEquilibriumRate.compute at one date.  model_results maps the
\* names of the models that produced a series to their r*.  A weight is
\* weights[m] / w_total, the composite is composite / w_total.
Compute(model_results, probs) ==
    LET valid_models == DOMAIN model_results
        weights == InterpWeights(probs)
        w_total == SumOver(weights, DOMAIN BASE_WEIGHTS)
        applied == {m \in valid_models : weights[m] > 0}
        terms == [m \in applied |-> weights[m] * model_results[m]]
        composite == SumOver(terms, applied)
    IN  IF valid_models = {} THEN NoComposite
        ELSE [has |-> TRUE,
              weights |-> weights,
              w_total |-> w_total,
              applied |-> applied,
              unclipped |-> composite,
              composite |-> Clip(composite, RStarMin * w_total,
                                 RStarMax * w_total)]

\* FeatureEngine._build_composite_equilibrium: models 1 to 4 and the
\* initial composite under the neutral probabilities
BuildCompositeEquilibrium ==
    /\ ~eq_out.called
    /\ \E avail \in SUBSET FirstPassModels,
          raw \in [FirstPassModels -> RawVals],
          ipca_exp \in IpcaVals :
          LET est == [fiscal |-> FiscalEstimate(raw["fiscal"]),
                      parity |-> ParityEstimate(raw["parity"]),
                      market_implied |->
                          MarketImpliedEstimate(raw["market_implied"], ipca_exp),
                      state_space |-> StateSpaceEstimate(raw["state_space"])]
              model_results == [m \in avail |-> est[m]]
          IN  eq_out' = [called |-> TRUE,
                         pass |-> "initial",
                         eq_model_results |-> model_results,
                         model_results |-> model_results,
                         regime_probs |-> NeutralProbs,
                         result |-> Compute(model_results, NeutralProbs)]
    /\ UNCHANGED notEq

\* FeatureEngine.update_equilibrium_with_regime(regime_probs_dict,
\* regime_probs_df); has_df: the history is there, longer than 12 rows, and
\* model 5 returned more than 12 values
UpdateEquilibriumWithRegime(regime_probs_dict, has_df, df_row, adapted) ==
    /\ eq_out.called
    /\ DOMAIN eq_out.eq_model_results # {}
    /\ LET stored == eq_out.eq_model_results
           model_results ==
               IF has_df
               THEN [m \in DOMAIN stored \cup {"regime"} |->
                        IF m = "regime"
                        THEN RegimeSwitchingEstimate(df_row, adapted)
                        ELSE stored[m]]
               ELSE stored
       IN  eq_out' = [eq_out EXCEPT
                         !.pass = "updated",
                         !.model_results = model_results,
                         !.regime_probs = regime_probs_dict,
                         !.result = Compute(model_results, regime_probs_dict)]
    /\ UNCHANGED notEq

EqIdle == eq_out = [called |-> FALSE]

\* the parts added last, not running
LastIdle == PredIdle /\ TrackIdle /\ MergeIdle /\ EqIdle
\* the parts added after the harness, not running
LaterIdle == EngineIdle /\ SelIdle /\ CvIdle /\ LastIdle

\* the harness not running: default configuration, nothing recorded
HarnessParked ==
    /\ HarnessIdle
    /\ n_rows = MinBacktestRows
    /\ training_window = MinBacktestRows - 1
    /\ regime_refit_interval = 12

Init ==
    /\ LaterIdle
    /\ RegimeIdle
    /\ EnsIdle
    /\ MuIdle
    /\ WeightsIdle
    /\ PrefixIdle
    /\ HarnessIdle
    /\ n_rows \in {MinBacktestRows - 1, MinBacktestRows}
    /\ training_window \in (n_rows - MaxWalk)..(n_rows - 1)
    /\ regime_refit_interval \in RefitIntervals

Next == RunStart \/ RunStep \/ RunFinish

Spec == Init /\ [][Next]_vars

InitRegime ==
    /\ LaterIdle
    /\ RegimeIdle /\ HarnessParked /\ EnsIdle /\ MuIdle /\ WeightsIdle /\ PrefixIdle
NextRegime ==
    \/ \E asof \in AsofDates, o \in FitOutcomes : Fit(asof, o)
    \/ \E date \in QueryDates : GetProbs(date)
SpecRegime == InitRegime /\ [][NextRegime]_vars

InitEnsemble ==
    /\ LaterIdle
    /\ EnsIdle /\ RegimeIdle /\ HarnessParked /\ MuIdle /\ WeightsIdle /\ PrefixIdle
NextEnsemble == UpdateOosHistory \/ EnsembleWeights
SpecEnsemble == InitEnsemble /\ [][NextEnsemble]_vars

InitMu ==
    /\ LaterIdle
    /\ raw_score_history \in ScoreHistories
    /\ mu_out = [called |-> FALSE]
    /\ RegimeIdle /\ HarnessParked /\ EnsIdle /\ WeightsIdle /\ PrefixIdle
NextMu == StepMu
SpecMu == InitMu /\ [][NextMu]_vars

InitWeights ==
    /\ LaterIdle
    /\ WeightsIdle /\ RegimeIdle /\ HarnessParked /\ EnsIdle /\ MuIdle /\ PrefixIdle
NextWeights == StepWeights
SpecWeights == InitWeights /\ [][NextWeights]_vars

InitPrefix ==
    /\ LaterIdle
    /\ raw_front \in RawSeries
    /\ engine_w \in EngineWeights
    /\ full_run = NoRun
    /\ prefix_run = NoRun
    /\ RegimeIdle /\ HarnessParked /\ EnsIdle /\ MuIdle /\ WeightsIdle
NextPrefix ==
    \/ RunFull
    \/ \E rows \in MinBacktestRows..(FullRows - 1) : RunPrefix(rows)
SpecPrefix == InitPrefix /\ [][NextPrefix]_vars

InitFs ==
    /\ EngineIdle /\ SelIdle /\ CvIdle /\ LastIdle
    /\ RegimeIdle /\ HarnessParked /\ EnsIdle /\ MuIdle /\ WeightsIdle /\ PrefixIdle
NextFs == \E probs \in RegimeRows : UpdateRegime(probs)
SpecFs == InitFs /\ [][NextFs]_vars

InitEngine ==
    /\ cfg_window \in WindowVals
    /\ step_count = 0
    /\ hp_cache = <<>>
    /\ alpha_hp_cache = <<>>
    /\ fs = FsInit
    /\ selected_features = {}
    /\ eng_out = [called |-> FALSE]
    /\ fs_shocks = {}
    /\ fs_fired = {}
    /\ SelIdle /\ CvIdle /\ LastIdle
    /\ RegimeIdle /\ HarnessParked /\ EnsIdle /\ MuIdle /\ WeightsIdle /\ PrefixIdle
NextEngine ==
    \E probs \in RegimeRows, rows \in HistoryRows,
       best \in [EngineInstruments -> HpOutcomes] : EngineStep(probs, rows, best)
SpecEngine == InitEngine /\ [][NextEngine]_vars

InitSelect ==
    /\ np_random \in [Processes -> OsEntropy]
    /\ sel_out = [r \in Processes |-> <<>>]
    /\ EngineIdle /\ CvIdle /\ LastIdle
    /\ RegimeIdle /\ HarnessParked /\ EnsIdle /\ MuIdle /\ WeightsIdle /\ PrefixIdle
NextSelect == \E rows \in SelectRows, has_ix \in BOOLEAN : SelectCall(rows, has_ix)
SpecSelect == InitSelect /\ [][NextSelect]_vars

InitCv ==
    /\ CvIdle
    /\ EngineIdle /\ SelIdle /\ LastIdle
    /\ RegimeIdle /\ HarnessParked /\ EnsIdle /\ MuIdle /\ WeightsIdle /\ PrefixIdle
NextCv ==
    \E n \in 0..MaxCvRows, n_splits \in SplitVals, purge_gap \in PurgeVals :
        PurgedKfoldCv(n, n_splits, purge_gap)
SpecCv == InitCv /\ [][NextCv]_vars

InitPredict ==
    /\ PredIdle /\ TrackIdle /\ MergeIdle /\ EqIdle
    /\ EngineIdle /\ SelIdle /\ CvIdle
    /\ RegimeIdle /\ HarnessParked /\ EnsIdle /\ MuIdle /\ WeightsIdle /\ PrefixIdle
NextPredict == FitAndPredict
SpecPredict == InitPredict /\ [][NextPredict]_vars

\* the runs of the pipeline: a run date is never before that of the last
\* snapshot
InitTrack ==
    /\ LastIdle
    /\ EngineIdle /\ SelIdle /\ CvIdle
    /\ RegimeIdle /\ HarnessParked /\ EnsIdle /\ MuIdle /\ WeightsIdle /\ PrefixIdle
NextTrack ==
    \/ \E outcome \in SelOutcomes : SelectRun(outcome)
    \/ \E run_date \in RunDates :
          /\ \A k \in 1..Len(fs_history) : fs_history[k].date <= run_date
          /\ RunV2Temporal(run_date)
SpecTrack == InitTrack /\ [][NextTrack]_vars

InitMerge ==
    /\ LastIdle
    /\ EngineIdle /\ SelIdle /\ CvIdle
    /\ RegimeIdle /\ HarnessParked /\ EnsIdle /\ MuIdle /\ WeightsIdle /\ PrefixIdle
NextMerge == SelectAndFit
SpecMerge == InitMerge /\ [][NextMerge]_vars

InitEq ==
    /\ LastIdle
    /\ EngineIdle /\ SelIdle /\ CvIdle
    /\ RegimeIdle /\ HarnessParked /\ EnsIdle /\ MuIdle /\ WeightsIdle /\ PrefixIdle
NextEq ==
    \/ BuildCompositeEquilibrium
    \/ \E regime_probs_dict \in ProbChoices, has_df \in BOOLEAN,
          df_row \in ProbChoices, adapted \in BOOLEAN :
          UpdateEquilibriumWithRegime(regime_probs_dict, has_df, df_row, adapted)
SpecEq == InitEq /\ [][NextEq]_vars

-----------------------------------------------------------------------------
(* Properties of the run on a prefix (specification SpecPrefix) *)

\* C1: the run on the rows up to a month t (enough rows for the harness to
\* run at all) yields, for every month up to t, the records the run on all
\* rows yields for the same months.
C1_WalkForwardPurity ==
    (full_run.done /\ prefix_run.done) =>
        \A d \in TrainingWindowDefault..(prefix_run.rows - 1) :
            /\ d \in DOMAIN full_run.records <=> d \in DOMAIN prefix_run.records
            /\ (d \in DOMAIN full_run.records /\ d \in DOMAIN prefix_run.records)
                   => full_run.records[d] = prefix_run.records[d]

-----------------------------------------------------------------------------
(* Properties of BacktestHarness.run (specification Spec) *)

\* Numerator of the product of (1 + ret(s)) over the first k records.
RECURSIVE ProdNum(_, _, _)
ProdNum(recs, k, field) ==
    IF k = 0 THEN 1 ELSE (RetDen + recs[k][field]) * ProdNum(recs, k - 1, field)
Compounded(recs, k, field) == [n |-> ProdNum(recs, k, field), e |-> k]

\* C2: at every backtest step, the first included, the regime frame the step
\* reads was fitted with an asof date that is not after the step's decision
\* date prev_date.
C2_FitAsofNotAfterDecision ==
    [][ (hpc = "walk" /\ i' = i + 1 /\ regime_probs'.fitted)
            => regime_probs'.last <= PrevDate(i) ]_vars

\* C5: in every record, equity_overlay is the product of (1 + overlay_return)
\* over the records up to it, during the walk and over the retained records
\* after the trimming.
OverlayIdentity(recs) ==
    \A k \in 1..Len(recs) :
        REq(recs[k].equity_overlay, Compounded(recs, k, "overlay_return"))
C5_EquityIsCompoundedReturn ==
    /\ OverlayIdentity(records)
    /\ (Len(records) > 0 => REq(equity_overlay, records[Len(records)].equity_overlay))
    /\ (hpc = "done" => OverlayIdentity(results))
\* a finished run that trimmed a leading month and kept two active months
C5_Witness ==
    /\ hpc = "done"
    /\ Len(results) = 2 /\ Len(records) = 3
    /\ results[1].overlay_return = -1 /\ results[2].overlay_return = 1

\* C6: the trimming drops exactly the records before the first active month,
\* keeps overlay_return of the retained records, and rebases the overlay,
\* total and Ibovespa curves (with their drawdowns) to compound from 1.0 at
\* the first retained month.
FirstDrawdownRebased(rec, eqField, ddField) ==
    LET dd == Drawdown(rec[eqField], RMax(One, rec[eqField]))
    IN  rec[ddField].n * dd.d = dd.n * rec[ddField].d
CurveRebased(recs, eqField, retField, ddField) ==
    /\ \A k \in 1..Len(recs) : REq(recs[k][eqField], Compounded(recs, k, retField))
    /\ Len(recs) > 0 => FirstDrawdownRebased(recs[1], eqField, ddField)
C6_TrimRebasesEveryCurve ==
    hpc = "done" =>
        LET a == ActiveStart(records)
        IN  IF a = 0 THEN results = records
            ELSE /\ Len(results) = Len(records) - a + 1
                 /\ \A k \in 1..Len(results) :
                        /\ results[k].date = records[a + k - 1].date
                        /\ results[k].overlay_return = records[a + k - 1].overlay_return
                 /\ CurveRebased(results, "equity_overlay", "overlay_return", "drawdown_overlay")
                 /\ CurveRebased(results, "equity_total", "total_return", "drawdown_total")
                 /\ CurveRebased(results, "equity_ibov", "ibov_return", "drawdown_ibov")

-----------------------------------------------------------------------------
(* Properties of RegimeModel (specification SpecRegime) *)

SumKeys(probs, keys) == SumOver(probs, keys)

\* C4: whatever the date, the probabilities get_probs_at returns sum to one
\* within the global trio and within the domestic pair; with no fit yet, with
\* a date before the first fitted row, and with a single level fitted.
C4_ProbsSumToOne ==
    probs_out.called =>
        /\ SumKeys(probs_out.probs, GlobalKeys) = PScale
        /\ SumKeys(probs_out.probs, DomesticKeys) = PScale

-----------------------------------------------------------------------------
(* Properties of the ensemble weights (specification SpecEnsemble) *)

\* C7: the ensemble weights of an instrument are non-negative and sum to one,
\* and they are 0.25 each while no model has 12 OOS pairs.
C7_EnsembleWeightsSimplex ==
    ens_out.called =>
        LET w == ens_out.weights
            num == [m \in MODEL_NAMES |-> w[m].n]
        IN  /\ \A m \in MODEL_NAMES : w[m].d > 0 /\ w[m].n >= 0
            /\ \A m, k \in MODEL_NAMES : w[m].d = w[k].d
            /\ \A m \in MODEL_NAMES : SumOver(num, MODEL_NAMES) = w[m].d
            /\ (\A m \in MODEL_NAMES : oos_len[m] < MinOosObs)
                   => \A m \in MODEL_NAMES : 4 * w[m].n = w[m].d
\* adaptive weights: one model scored zero, another twice a third
C7_Witness ==
    /\ ens_out.called
    /\ oos_len["ridge"] >= MinOosObs
    /\ ens_out.weights["ridge"].n = 0
    /\ ens_out.weights["gbm"].n = 60
    /\ ens_out.weights["rf"].n = 30
    /\ ens_out.weights["xgb"].n = 0

-----------------------------------------------------------------------------
(* Properties of the mu stages (specification SpecMu) *)

AllIcBelow(bound) ==
    /\ DOMAIN mu_out.ic_scores = MuKeys
    /\ \A k \in MuKeys : mu_out.ic_scores[k] < bound
Shrunk(k) == 0 < Abs(mu_out.mu_gated[k]) /\ Abs(mu_out.mu_gated[k]) < Abs(mu_out.mu[k])
NeverZeroed == \A k \in MuKeys : mu_out.mu[k] # 0 => mu_out.mu_gated[k] # 0

\* C8: IC gating never turns a non-zero mu into zero, and when every
\* instrument's IC is <= 0 it shrinks |mu| of every instrument with a
\* non-zero mu without zeroing it.
C8_SoftGateShrinks ==
    mu_out.called =>
        /\ NeverZeroed
        /\ AllIcBelow(1) => \A k \in MuKeys : mu_out.mu[k] # 0 => Shrunk(k)

\* C10: when |raw_score| < 0.005 the demeaning stage is pass-through: the
\* scale factor is exactly 1, whatever the score buffer holds.
C10_NearZeroPassThrough ==
    (mu_out.called /\ Abs(mu_out.raw_score) < RawScoreMin)
        => mu_out.scale_factor.n = mu_out.scale_factor.d

-----------------------------------------------------------------------------
(* Properties of the weights (specification SpecWeights) *)

\* C3: every weight the step returns and the harness records lies within
\* [-U_i, +U_i], U_i being the blend of the regime position limits; with the
\* solver succeeding and with the fallback alike.
C3_WeightsWithinLimits ==
    w_out.called =>
        \A k \in Instruments :
            /\ FLeq(FAbs(w_out.weights[k]), MaxW(k, w_out.probs))
            /\ FLeq(Frac(Abs(w_out.recorded[k]), 10000), MaxW(k, w_out.probs))

\* the cut table of the circuit breaker: belly, long x0.5; hard, ntnb x0.4;
\* front x0.7; fx x1
CutOnce(k) ==
    IF k \in {"belly", "long"} THEN Frac(1, 2)
    ELSE IF k \in {"hard", "ntnb"} THEN Frac(2, 5)
    ELSE IF k = "front" THEN Frac(7, 10)
    ELSE Frac(1, 1)
Uncut(k) ==
    FMul(FMul(w_out.optimized[k], DdScale(w_out.drawdown)), VolScale(w_out.realized_vol))

\* C9: with P_riskoff > 0.7 and P_domestic_stress > 0.7 the weights the step
\* returns are the optimiser's, scaled by the drawdown and volatility
\* overlays and cut once by the table; otherwise they are not cut at all.
C9_CircuitBreakerOnce ==
    w_out.called =>
        \A k \in Instruments :
            w_out.weights[k] =
                IF w_out.probs.P_riskoff > 70 /\ w_out.probs.P_domestic_stress > 70
                THEN FMul(Uncut(k), CutOnce(k))
                ELSE Uncut(k)
\* the breaker fired on a full-size solver point with no other overlay active
C9_Witness ==
    /\ w_out.called /\ w_out.success
    /\ w_out.probs.P_riskoff = 80 /\ w_out.probs.P_domestic_stress = 80
    /\ w_out.drawdown = 0 /\ w_out.realized_vol = 100
    /\ w_out.optimized["belly"] = MaxW("belly", w_out.probs)
    /\ w_out.weights["belly"] = FMul(MaxW("belly", w_out.probs), Frac(1, 2))
    /\ w_out.weights["fx"] = w_out.optimized["fx"]

\* C11: the drawdown throttle factor lies between the floor 0.10 and 1; when
\* the drawdown is deep enough for the schedule to fall to the floor or
\* below (from -9% on) the factor is exactly 0.10 and every weight after the
\* overlays is at most 0.10 times the weight before them.
OnlyDrawdownActs ==
    /\ w_out.realized_vol <= VolTarget
    /\ ~(w_out.probs.P_riskoff > 70 /\ w_out.probs.P_domestic_stress > 70)
ScheduleAtOrBelowFloor == 10 * w_out.drawdown <= 9 * Dd10
C11_DrawdownFloor ==
    w_out.called =>
        \A k \in Instruments :
            LET pre   == FAbs(w_out.optimized[k])
                post  == FAbs(w_out.weights[k])
                tenth == FMul(pre, Frac(1, 10))
            IN  /\ FLeq(post, pre)
                /\ OnlyDrawdownActs => FLeq(tenth, post)
                /\ ScheduleAtOrBelowFloor => FLeq(post, tenth)
                /\ (ScheduleAtOrBelowFloor /\ OnlyDrawdownActs) => post = tenth
\* a drawdown of -9.6%, where the schedule alone would give 0.04
C11_Witness ==
    /\ w_out.called /\ w_out.success
    /\ w_out.drawdown = -96
    /\ OnlyDrawdownActs
    /\ w_out.optimized["fx"] = MaxW("fx", w_out.probs)
    /\ w_out.weights["fx"] = FMul(MaxW("fx", w_out.probs), Frac(1, 10))

-----------------------------------------------------------------------------
(* Properties of the feature re-selection (specification SpecFs) *)

\* the re-selections flagged during the 12 steps after step s
FiredAfter(s) == { t \in fs_fired : s < t /\ t <= s + 12 }

\* C12: after a regime shock the regime-triggered re-selection fires at most
\* once during the following 12 steps, however the dominant regime moves.
C12_OncePerTwelveSteps ==
    \A s \in fs_shocks : Cardinality(FiredAfter(s)) <= 1

\* C12 (as the code has it): a re-selection fires only at a step where the
\* dominant regime changed, two re-selections are at least 6 steps apart, and
\* so at most two fire during the 12 steps after a regime shock.
C12_CooldownSixSteps ==
    /\ fs_fired \subseteq fs_shocks
    /\ \A s \in fs_fired, t \in fs_fired : s < t => t - s >= 6
    /\ \A s \in fs_shocks : Cardinality(FiredAfter(s)) <= 2
\* a shock at step 2 and re-selections at steps 8 and 14, both within the
\* 12 steps after it
C12_Witness ==
    /\ fs.current_step = 14
    /\ 2 \in fs_shocks
    /\ FiredAfter(2) = {8, 14}
    /\ selected_features = {}

-----------------------------------------------------------------------------
(* Properties of the transaction-cost multiplier (specification SpecWeights) *)

\* the mix of the multipliers of the global regimes, in thousandths
GlobalTcMix(probs) ==
    probs.P_carry * TcRegimeMults.carry + probs.P_riskoff * TcRegimeMults.riskoff
        + probs.P_stress * TcRegimeMults.stress
StressDominates(probs) ==
    probs.P_stress > probs.P_carry /\ probs.P_stress > probs.P_riskoff

\* C13: the multiplier the optimiser uses and the harness records is the
\* probability-weighted mix of the configured multipliers: never below the
\* mix over the global regimes, and at least 1.5 when stress dominates.
C13_TcMultIsRegimeMix ==
    w_out.called =>
        /\ w_out.tc_mult >= GlobalTcMix(w_out.probs)
        /\ StressDominates(w_out.probs) =>
              w_out.tc_mult >= 1500 /\ w_out.tc_mult_recorded >= 150

-----------------------------------------------------------------------------
(* Properties of the random draws (specification SpecSelect) *)

\* C14: two runs on the same data and configuration make the same random
\* draws, call by call, and every draw comes from a generator seeded for it
\* with a fixed seed, never from the state the global generator was left in.
C14_Deterministic ==
    /\ sel_out[1] = sel_out[2]
    /\ \A r \in Processes : \A c \in 1..Len(sel_out[r]) :
          \A k \in 1..Len(sel_out[r][c]) : sel_out[r][c][k].seeded

-----------------------------------------------------------------------------
(* Properties of the refit schedule (specification Spec) *)

\* C15: a step of the walk refits the regime model exactly when i minus the
\* step of the last (re)fit is at least regime_refit_interval (the initial
\* fit being step 0); the refit uses the expanding window that ends at the
\* month before the month traded; no other step touches the fit.
C15_RefitSchedule ==
    [][ (hpc = "walk" /\ i' = i + 1) =>
          IF i - last_regime_refit >= regime_refit_interval
          THEN /\ last_regime_refit' = i
               /\ fit_log'.called /\ fit_log'.asof = training_window + i - 1
               /\ \/ regime_probs' = regime_probs
                  \/ /\ regime_probs'.fitted
                     /\ regime_probs'.last = training_window + i - 1
                     /\ regime_probs'.first \in { ObsFirst[l] : l \in DOMAIN ObsFirst }
          ELSE /\ last_regime_refit' = last_regime_refit
               /\ fit_log' = fit_log
               /\ regime_probs' = regime_probs ]_vars
\* a refit made at step 2 (interval 2), as of the month before
C15_Witness ==
    /\ hpc = "walk" /\ i = 3
    /\ regime_refit_interval = 2
    /\ last_regime_refit = 2
    /\ fit_log.called /\ fit_log.asof = training_window + 1
    /\ regime_probs.fitted
    /\ regime_probs.last = training_window + 1

-----------------------------------------------------------------------------
(* Properties of the failed fits (specification SpecRegime) *)

\* the probabilities of one level are uniform: equal to one another and one
\* n-th each, to the resolution of the two-decimal literals
UniformLevel(probs, keys) ==
    \A k \in keys :
        /\ \A k2 \in keys : probs[k] = probs[k2]
        /\ Abs(Cardinality(keys) * probs[k] - PScale) < Cardinality(keys)

\* C16: after a fit in which a level failed, the probabilities served at any
\* date for that level are the uniform priors (the global trio equal, the
\* domestic pair equal) until a later fit of the level succeeds.
C16_FailedLevelUniform ==
    fit_log.called =>
        \A date \in QueryDates :
            LET probs == GetProbsAt(regime_probs, date)
            IN  /\ ~fit_log.global_ok => UniformLevel(probs, GlobalKeys)
                /\ ~fit_log.domestic_ok => UniformLevel(probs, DomesticKeys)

-----------------------------------------------------------------------------
(* Properties of the hyperparameter cache (specification SpecEngine) *)

\* C17: under the default configuration the cache is refreshed at the steps
\* 1, 13, 25, ... and at no other: at such a step every instrument with the
\* history the cross-validation needs has a configuration stored, and at any
\* other step the cache is left as it was.
C17_RefreshEveryTwelveSteps ==
    (eng_out.called /\ cfg_window = TrainingWindowDefault) =>
        IF eng_out.step % HpRefitInterval = 1
        THEN eng_out.rows >= MinCvRows =>
                 /\ eng_out.stored = EngineInstruments
                 /\ EngineInstruments \subseteq DOMAIN hp_cache
        ELSE /\ eng_out.stored = {}
             /\ hp_cache = eng_out.cached_before

\* C18: an instrument with a cached configuration is fitted with that
\* configuration (Ridge alpha and the parameters of the three tree learners)
\* at every step from the refresh on: the cache the refresh writes is the
\* cache fit_and_predict reads.
C18_FitUsesCachedConfig ==
    eng_out.called =>
        /\ alpha_hp_cache = hp_cache
        /\ \A inst \in eng_out.fitted \cap DOMAIN hp_cache :
               eng_out.hp_used[inst] = hp_cache[inst]

-----------------------------------------------------------------------------
(* Properties of purged_kfold_cv (specification SpecCv) *)

\* the rows X[:train_end] and X[test_start:test_end] of a fold
TrainRows(f) == 0 .. (f.train_end - 1)
TestRows(f)  == f.test_start .. (f.test_end - 1)

\* C19: in every fold that is fitted the training rows are the rows
\* [0, test_start - purge_gap): each of them precedes the test slice, with at
\* least purge_gap rows between it and the first test row, and no row at or
\* after test_start is a training row.
C19_TrainPrecedesTestByGap ==
    cv_out.called =>
        \A f \in cv_out.folds :
            /\ TrainRows(f) = 0 .. (f.test_start - cv_out.purge_gap - 1)
            /\ \A t \in TrainRows(f) :
                   /\ t < f.test_start
                   /\ f.test_start - t - 1 >= cv_out.purge_gap
            /\ TrainRows(f) \cap TestRows(f) = {}
            /\ \A t \in TrainRows(f), u \in TestRows(f) : t < u
\* the five folds of 150 rows with the gap of 3: four are fitted, the first
\* of them on the rows 0..26 against the test rows 30..59
C19_Witness ==
    /\ cv_out.called
    /\ cv_out.n_splits = 5 /\ cv_out.purge_gap = 3
    /\ Cardinality(cv_out.folds) = 4
    /\ \E f \in cv_out.folds :
           f.test_start = 30 /\ f.train_end = 27 /\ TestRows(f) = 30 .. 59

-----------------------------------------------------------------------------
(* Properties of the observations behind the gate (specification SpecMu) *)

\* C20: the gating stage leaves the mu of an instrument unchanged when its IC
\* rests on fewer than 24 (prediction, realised) pairs.
C20_GateNeedsTwentyFourPairs ==
    mu_out.called =>
        \A k \in MuKeys :
            mu_out.n_pairs[k] < IcMinObs => mu_out.mu_gated[k] = mu_out.mu[k]

-----------------------------------------------------------------------------
(* Properties of the cooldown (specification SpecFs) *)

\* C26: a re-selection is flagged only at a step after the first, whose
\* dominant regime differs from the one recorded at the step before, and at
\* least 6 steps after every earlier re-selection.
C26_RefitNeedsChangeAndCooldown ==
    [][ fs'.regime_refit_flag =>
            /\ fs.current_step >= 1
            /\ fs.prev_dominant_regime # NoRegime
            /\ fs'.prev_dominant_regime # fs.prev_dominant_regime
            /\ \A t \in fs_fired : fs'.current_step - t >= FsRefitCooldown
            /\ fs_fired' = fs_fired \cup {fs'.current_step} ]_vars
\* two re-selections exactly 6 steps apart, the second just flagged
C26_Witness ==
    /\ fs.regime_refit_flag
    /\ fs.current_step = 8
    /\ fs_fired = {2, 8}

\* C27: a change of dominant regime that the cooldown blocks is recorded as
\* the previous regime at once and flags nothing, and a step whose dominant
\* regime is the recorded one never flags a re-selection, the cooldown having
\* expired or not.
C27_BlockedChangeNotDeferred ==
    [][ /\ (fs_shocks' # fs_shocks
              /\ fs'.current_step - fs.fs_last_refit_step < FsRefitCooldown) =>
                /\ ~fs'.regime_refit_flag
                /\ fs'.prev_dominant_regime # fs.prev_dominant_regime
                /\ fs_fired' = fs_fired
        /\ (fs_shocks' = fs_shocks /\ fs'.current_step = fs.current_step + 1) =>
                /\ ~fs'.regime_refit_flag
                /\ fs.prev_dominant_regime # NoRegime =>
                       fs'.prev_dominant_regime = fs.prev_dominant_regime
                /\ fs_fired' = fs_fired ]_vars
\* a re-selection at step 2, a change blocked at step 4, and nothing flagged
\* up to step 9 although the cooldown expired at step 8
C27_Witness ==
    /\ fs.current_step = 9
    /\ fs_shocks = {2, 4}
    /\ fs_fired = {2}
    /\ fs.current_step - fs.fs_last_refit_step >= FsRefitCooldown
    /\ ~fs.regime_refit_flag

-----------------------------------------------------------------------------
(* Properties of the probabilities between refits (specification Spec) *)

\* the probabilities the last step consumed
LastProbs(recs) == recs[Len(recs)].probs

\* C28: at a step of the walk that makes no refit, the probabilities consumed
\* are those of the step before once that step's decision date is later than
\* the asof date of the last fit, and the dominant regime is that of the step
\* before: the dominant regime moves only at a step that refits.
C28_RegimeMovesOnlyAtRefit ==
    [][ (hpc = "walk" /\ i' = i + 1 /\ i >= 1
            /\ i - last_regime_refit < regime_refit_interval) =>
            /\ (fit_log.called /\ PrevDate(i - 1) > fit_log.asof) =>
                   LastProbs(records') = LastProbs(records)
            /\ Dominant(LastProbs(records')) = Dominant(LastProbs(records)) ]_vars

-----------------------------------------------------------------------------
(* Properties of the risk overlays as a whole (specification SpecWeights) *)

Sign(x) == IF x > 0 THEN 1 ELSE IF x < 0 THEN -1 ELSE 0
\* a factor in (0, 1]
ShrinkFactor(f) == f.n > 0 /\ f.d > 0 /\ f.n <= f.d

\* C29: the overlays only shrink: each of the drawdown, volatility and
\* circuit-breaker factors lies in (0, 1], every weight after the overlays
\* has the sign of the weight before them and no larger a size, and the
\* instruments are the same.
C29_OverlaysOnlyShrink ==
    w_out.called =>
        /\ DOMAIN w_out.weights = DOMAIN w_out.optimized
        /\ ShrinkFactor(DdScale(w_out.drawdown))
        /\ ShrinkFactor(VolScale(w_out.realized_vol))
        /\ \A k \in Instruments :
               /\ ShrinkFactor(Frac(CbCut[k], 10))
               /\ Sign(w_out.weights[k].n) = Sign(w_out.optimized[k].n)
               /\ w_out.weights[k].d > 0 /\ w_out.optimized[k].d > 0
               /\ FLeq(FAbs(w_out.weights[k]), FAbs(w_out.optimized[k]))
\* a short position under a drawdown of -2%, twice the target volatility and
\* the circuit breaker: shrunk, still short
C29_Witness ==
    /\ w_out.called
    /\ w_out.drawdown = -20 /\ w_out.realized_vol = 200
    /\ CircuitBreakerOn(w_out.probs)
    /\ w_out.optimized["belly"].n < 0
    /\ w_out.weights["belly"].n < 0
    /\ w_out.weights["belly"] = FMul(w_out.optimized["belly"], Frac(2, 10))

-----------------------------------------------------------------------------
(* Properties of the ensemble mix (specification SpecPredict) *)

\* the mix over the learners that did not raise only
MixOfFitted(weights, inst_preds, raises) ==
    LET fitted == MODEL_NAMES \ raises
        terms  == [m \in MODEL_NAMES |-> weights[m].n * inst_preds[m]]
        num    == [m \in MODEL_NAMES |-> weights[m].n]
    IN  IF SumOver(num, fitted) = 0 THEN Frac(0, 1)
        ELSE Frac(SumOver(terms, fitted), SumOver(num, fitted))

\* C21: when a learner's fit or predict raises, the ensemble mu of the
\* instrument is the mix of the other learners alone, their weights rescaled
\* to sum to one; the learner that raised adds no term and holds no weight.
C21_FailedLearnerDropped ==
    (pred_out.called /\ pred_out.raises # {}) =>
        pred_out.mu_ensemble =
            MixOfFitted(pred_out.weights, pred_out.inst_preds, pred_out.raises)

-----------------------------------------------------------------------------
(* Properties of the snapshots and the alerts (specification SpecTrack) *)

\* C22: the changes block compares the final features of the run with the
\* most recent snapshot of an earlier run: has_previous tells whether there
\* is one, gained holds the features the run has and that snapshot lacks,
\* lost the features that snapshot has and the run lacks.
C22_ChangesAgainstPreviousRun ==
    chg_out.called =>
        LET earlier == chg_out.earlier
        IN  /\ chg_out.changes.has_previous <=> (Len(earlier) >= 1)
            /\ Len(earlier) >= 1 =>
                 LET prev == earlier[Len(earlier)].final_features
                 IN  /\ chg_out.changes.gained = chg_out.current \ prev
                     /\ chg_out.changes.lost = prev \ chg_out.current

\* C23: a selection of the instrument that follows another one makes, for
\* each feature, the alert of its transition between the two selections
\* (critical for robust to unstable, warning for robust to moderate, info for
\* unstable to robust) and no other alert.
C23_AlertOnTransition ==
    (alert_out.called /\ alert_out.previous.has) =>
        alert_out.alerts =
            AlertsAgainst(alert_out.previous.classification, alert_out.current)

-----------------------------------------------------------------------------
(* Properties of the merged feature set (specification SpecMerge) *)

\* C24: the final feature set of a selection is the union of the Elastic-Net
\* set, the Boruta confirmed and tentative sets and the confirmed
\* interactions, and every feature handed to Ridge or to the tree learners
\* belongs to it.  (Stated for the selections that keep three features or
\* more, where the keep-all fallback plays no part.)
C24_MergedIsUnion ==
    (merge_out.called
        /\ Cardinality(merge_out.enet_selected \cup merge_out.boruta_confirmed)
               >= MinFinalFeatures) =>
        /\ merge_out.final_features =
               ((merge_out.enet_selected \cup merge_out.boruta_confirmed)
                    \cup merge_out.boruta_tentative)
                    \cup merge_out.interactions_confirmed
        /\ merge_out.ridge_features \subseteq merge_out.selected.final
        /\ merge_out.tree_features \subseteq merge_out.selected.final

-----------------------------------------------------------------------------
(* Properties of the equilibrium composite (specification SpecEq) *)

\* C25: each of the five equilibrium models emits real r* values within
\* [2, 10] percent at every date, and the composite r* is within [2, 10]
\* as well.
C25_ModelsWithinTwoToTen ==
    eq_out.called =>
        /\ \A m \in DOMAIN eq_out.model_results :
              /\ eq_out.model_results[m] >= RStarMin
              /\ eq_out.model_results[m] <= RStarMax
        /\ eq_out.result.has =>
              /\ eq_out.result.composite >= RStarMin * eq_out.result.w_total
              /\ eq_out.result.composite <= RStarMax * eq_out.result.w_total

\* the weights compute applied, as numerators over result.w_total
AppliedWeights(result) == [m \in result.applied |-> result.weights[m]]

\* C30: the composite r* is a convex combination of the model estimates
\* available at the date: the regime-interpolated weights applied to the
\* available models are non-negative and sum to 1, also when one or more of
\* the five models is missing (as in the initial pass, before the
\* regime-switching model exists).
C30_AppliedWeightsSumToOne ==
    (eq_out.called /\ eq_out.result.has) =>
        /\ \A m \in eq_out.result.applied : eq_out.result.weights[m] >= 0
        /\ SumOver(AppliedWeights(eq_out.result), eq_out.result.applied)
               = eq_out.result.w_total

=============================================================================
